---- MODULE Spec2Model ----
(***************************************************************************)
(* Model of the a2a-go server runtime.                                     *)
(*                                                                         *)
(* Part 1: the in-memory event queue                                       *)
(* (a2asrv/eventqueue/queue_in_memory_impl.go, the version at lines        *)
(* 134-271): a buffered channel `events`, a one-token semaphore, the       *)
(* `closed` flag, the broadcast channel `closeChan` and the mutex          *)
(* `closeMu`.  Every goroutine that calls Write, Read or Close is a        *)
(* process.  One action is one step of such a call: it starts at a         *)
(* blocking operation (a channel send, a select, a mutex lock) and runs    *)
(* on through the statements that only touch state the goroutine then      *)
(* owns (q.closed under the semaphore or under closeMu), up to the next    *)
(* blocking operation or the return.  A Go select with several ready       *)
(* cases picks any of them; that is modelled as a disjunction.             *)
(*                                                                         *)
(* Part 2: the in-memory queue manager                                     *)
(* (a2asrv/eventqueue/manager_in_memory_impl.go): the map from task ids    *)
(* to queues under the mutex `mu`, with GetOrCreate and Destroy.           *)
(*                                                                         *)
(* Part 3: the task update manager (internal/taskupdate): Process applies  *)
(* an event to the managed Task and hands the Task to the Saver.           *)
(*                                                                         *)
(* Part 4: the request handler (a2asrv/handler.go): OnSendMessage and the  *)
(* methods that are not implemented yet.                                   *)
(*                                                                         *)
(* Part 5: the in-memory task store (taskstore.Mem): Save and Get, each    *)
(* passing the Task through a gob round trip, over a heap of Task objects  *)
(* so that a caller's later assignments and the stored Task can be told    *)
(* apart.                                                                  *)
(*                                                                         *)
(* Part 6: Destroy of the manager run against a queue of part 1 that       *)
(* writers are using, Close taken step by step inside the manager's        *)
(* critical section.                                                       *)
(*                                                                         *)
(* Part 7: the queue of part 1 read by several goroutines at once          *)
(* (ReadersSpec), and the request handler of part 4 run with the manager   *)
(* of part 2 and the queue of part 1, as NewHandler builds it: every       *)
(* request is a goroutine that calls GetOrCreate, runs Execute, whose      *)
(* Writes go to the queue, and then Reads one event (ServeSpec; SyncSpec   *)
(* is the same without cancellation and with executors that return nil).   *)
(*                                                                         *)
(* The parts share the variables; each has its own next-state relation     *)
(* and specification, and leaves the other parts' variables unchanged.     *)
(***************************************************************************)
EXTENDS Integers, Sequences, FiniteSets, TLC

\* ---------------------------------------------------------------- bounds
\* number of a2a.Task objects in one behaviour of the task store: the
\* caller's own, and one for every copy Save and Get make
MaxObjects == 4
\* number of assignments the caller makes to fields of its Task objects
MaxMutations == 2
\* largest capacity passed to NewInMemoryQueue(size)
QueueSize == 2
\* number of goroutines that call Write
NumWriters == 2
\* number of goroutines that call Read
NumReaders == 2
\* number of goroutines that call Close
NumClosers == 2
\* total number of Write calls in one behaviour (each carries a fresh event)
MaxWrites == 3
\* the same, in the behaviours checked under fairness
FairWrites == 2
\* number of goroutines that call the queue manager
NumClients == 2
\* number of distinct task ids handed to the queue manager
NumTaskIDs == 2
\* total number of queues NewInMemoryQueue creates for the manager
MaxQueues == 2
\* total number of Process calls on the task update manager
MaxEvents == 2
\* number of goroutines that call OnSendMessage
NumRequests == 2

\* ------------------------------------------------------- program constants
\* newSemaphore(1): the capacity of the tokens channel
SemaphoreCount == 1

Writers == {<<"w", i>> : i \in 1..NumWriters}
Readers == {<<"r", i>> : i \in 1..NumReaders}
\* the goroutine the Read calls come from where they are not concurrent
OneReader == {r \in Readers : r[2] = 1}
Closers == {<<"c", i>> : i \in 1..NumClosers}
Procs == Writers \cup Readers \cup Closers
\* goroutines that call GetOrCreate and Destroy and write to the queues
Clients == {<<"m", i>> : i \in 1..NumClients}
\* a2a.TaskID values: "task-1", "task-2", ...
TaskIDOf(i) == "task-" \o ToString(i)
TaskIDs == {TaskIDOf(i) : i \in 1..NumTaskIDs}
\* the queue instances NewInMemoryQueue returns, in order of creation
QueueRefs == 1..MaxQueues
\* goroutines of the transport that call OnSendMessage
Requests == {<<"h", i>> : i \in 1..NumRequests}

\* results of a call: still running, nil, ErrQueueClosed, ctx.Err()
NoResult == "none"
Nil == "nil"
ErrQueueClosed == "ErrQueueClosed"
CtxErr == "context.Canceled"

\* no event (the nil a2a.Event)
NoEvent == 0
\* no goroutine (an unlocked mutex)
NoProc == <<"none", 0>>
\* no queue (a missing map entry, a nil Queue)
NoQueue == 0
\* fmt.Errorf("queue cannot be destroyed as queue for taskId: %s does not exist", taskId)
ErrNotExist(t) == "queue cannot be destroyed as queue for taskId: " \o t \o " does not exist"

VARIABLES
    size,             \* cap(q.events): the size given to NewInMemoryQueue
    events,           \* q.events: the buffered events, oldest first
    eventsClosed,     \* close(q.events) has been executed
    tokens,           \* q.semaphore.tokens: number of tokens in the channel
    closed,           \* q.closed
    closeChanClosed,  \* close(q.closeChan) has been executed
    closeMu,          \* q.closeMu: the closer that holds it, or NoProc
    pc,               \* position of every goroutine inside its call
    ctxDone,          \* ctx.Done() of the call's context is closed
    arg,              \* the event argument of the writer's current / last Write
    result,           \* error result of the current / last call
    got,              \* event returned by the reader's last Read
    panicked,         \* a goroutine panicked (send on / close of a closed channel)
    \* history variables (not program state)
    nextEvent,        \* id of the next event handed to Write
    accepted,         \* events enqueued by Write, in enqueue order
    delivered,        \* events returned by Read, in dequeue order
    closeReturned,    \* some Close call has returned
    afterClose,       \* the writer's call started after a Close had returned
    canceledAtCall    \* the writer's context was already canceled at the call

\* the in-memory queue manager (manager_in_memory_impl.go)
VARIABLES
    mu,               \* m.mu: the client that holds it, or NoProc
    queues,           \* m.queues: task id -> queue instance, NoQueue if absent
    nextQueue,        \* the instance the next NewInMemoryQueue call returns
    queueClosed,      \* q.closed of every queue instance
    mpc,              \* position of every client inside its manager call
    mop,              \* the manager call the client is in
    mtaskId,          \* the taskId argument of that call
    mok,              \* the `ok` of the map lookup under the lock
    merr,             \* the error result of the client's last call
    handle,           \* the Queue the client's last GetOrCreate returned
    \* history variables (not program state)
    queueTask,        \* the task id every instance was created for
    destroyed         \* the instances a Destroy call closed and removed

\* the task update manager (taskupdate.Manager) and its Saver
VARIABLES
    taskRef,          \* mgr.Task: the identity of the Task object, NilRef if nil
    Task,             \* the fields of the Task object mgr.Task points to
    saved,            \* the Task the Saver stored last: <<>> or <<[ref, task]>>
    saveCalls,        \* number of Saver.Save calls
    perr,             \* the error result of the last Process call
    nProcess,         \* number of Process calls
    \* history variables (not program state)
    base,             \* the Task as NewManager got it / as the last snapshot set it
    applied,          \* Message and Metadata of the status updates that succeeded since
    lastStatus,       \* the Status of the last event that succeeded, or of base
    lastEvent,        \* the last event processed: its kind, whether its ids match, its object
    dirty             \* a status update was applied to the Task and its Save failed

updateVars == <<taskRef, Task, saved, saveCalls, perr, nProcess, base, applied,
                lastStatus, lastEvent, dirty>>

\* the request handler (defaultRequestHandler.OnSendMessage)
VARIABLES
    hpc,              \* position of every request goroutine inside OnSendMessage
    htaskID,          \* message.Message.TaskID of the current / last request
    hresult,          \* the a2a.SendMessageResult of the last request
    herr,             \* the error result of the last request
    \* history variables (not program state)
    hcalls,           \* the calls the current / last request made, in order
    hevent,           \* the dynamic type of the event the request's Read returned
    \* the last call of a handler method other than OnSendMessage
    umethod,          \* the method, or "none"
    ures,             \* the value it returned
    uerr,             \* the error it returned; NoResult if it returns no error
    ucalls,           \* (history) the calls it made to the queue manager, a queue or the executor
    \* the agent executor the handler calls
    toWrite           \* the number of events the request's Execute has still to write

handlerVars == <<hpc, htaskID, hresult, herr, hcalls, hevent, umethod, ures, uerr, ucalls,
                 toWrite>>

\* the in-memory task store (taskstore.Mem) and the Task objects of its caller
VARIABLES
    heap,             \* the a2a.Task objects allocated so far: heap[ref] is the value of *ref
    tasks,            \* s.tasks: for every TaskID the object stored under it, or NilRef
    held,             \* the objects the caller has a pointer to
    sop,              \* the last operation: "none", "Save", "Get" or "Mutate"
    sid,              \* the TaskID of the last Save or Get
    sgot,             \* the *a2a.Task the last Get returned, or NilRef
    serr,             \* the error the last Save or Get returned
    \* history variables (not program state)
    snapshot,         \* for every TaskID <<v>>, v the Task's value when it was last saved, or <<>>
    touched,          \* the objects the caller wrote to
    nMutate           \* the number of assignments the caller made

storeVars == <<heap, tasks, held, sop, sid, sgot, serr, snapshot, touched, nMutate>>

managerVars == <<mu, queues, nextQueue, queueClosed, mpc, mop, mtaskId,
                 mok, merr, handle, queueTask, destroyed>>

\* the variables of the other components, which the queue's actions leave alone
otherVars == <<managerVars, updateVars, handlerVars, storeVars>>

vars == <<size, events, eventsClosed, tokens, closed, closeChanClosed, closeMu, pc,
          ctxDone, arg, result, got, panicked, nextEvent, accepted, delivered,
          closeReturned, afterClose, canceledAtCall, otherVars>>

queueVars == <<size, events, eventsClosed, tokens, closed, closeChanClosed, closeMu,
               panicked>>
historyVars == <<nextEvent, accepted, delivered, closeReturned, afterClose,
                 canceledAtCall>>

\* NewInMemoryManager(): an empty map, an unlocked mutex, no queue created yet
ManagerInit ==
    /\ mu = NoProc
    /\ queues = [t \in TaskIDs |-> NoQueue]
    /\ nextQueue = 1
    /\ queueClosed = [q \in QueueRefs |-> FALSE]
    /\ mpc = [c \in Clients |-> "idle"]
    /\ mop = [c \in Clients |-> "none"]
    /\ mtaskId = [c \in Clients |-> ""]
    /\ mok = [c \in Clients |-> FALSE]
    /\ merr = [c \in Clients |-> NoResult]
    /\ handle = [c \in Clients |-> NoQueue]
    /\ queueTask = [q \in QueueRefs |-> ""]
    /\ destroyed = {}

\* a2a.Task values: the fields the task update manager reads and writes.
\* A message is identified by a number, NoMessage is the nil *a2a.Message;
\* Metadata is <<>> for the nil map and <<m>> for the map m.
NilRef == 0
NoMessage == 0
NilMetadata == <<>>
TaskStatus(state, message) == [State |-> state, Message |-> message]
NewTask(id, contextID, status, history, metadata) ==
    [ID |-> id, ContextID |-> contextID, Status |-> status, History |-> history,
     Metadata |-> metadata]

\* what the history variable lastEvent records of an event
EventInfo(kind, matches, ref) == [kind |-> kind, matches |-> matches, ref |-> ref]

\* the Task handed to NewManager: the identity of newTestTask, in the
\* submitted state, with or without a status message and a first History
\* entry (NewSubmittedTask puts the user's message there); or a Task whose
\* ID was left empty
InitialTasks ==
    {NewTask("task-1", "ctx-1", TaskStatus("submitted", m), h, NilMetadata) :
        m \in {NoMessage, -2}, h \in {<<>>, <<-1>>}}
    \cup {NewTask("", "ctx-1", TaskStatus("submitted", NoMessage), <<>>, NilMetadata)}

\* newTestTask(): a Task with an identity and nothing else
FirstTask ==
    NewTask("task-1", "ctx-1", TaskStatus("submitted", NoMessage), <<>>, NilMetadata)

\* NewManager(saver, task) with a testSaver{} that has stored nothing; with a
\* nil task the fields of Task are never read
UpdateInit ==
    /\ taskRef \in {NilRef, 1}
    /\ Task \in InitialTasks
    /\ taskRef = NilRef => Task = FirstTask
    /\ saved = <<>>
    /\ saveCalls = 0
    /\ perr = NoResult
    /\ nProcess = 0
    /\ base = Task
    /\ applied = <<>>
    /\ lastStatus = Task.Status
    /\ lastEvent = EventInfo("none", FALSE, NilRef)
    /\ dirty = FALSE

\* the state in which the other components run
UpdateIdle ==
    /\ taskRef = 1
    /\ Task = FirstTask
    /\ saved = <<>>
    /\ saveCalls = 0
    /\ perr = NoResult
    /\ nProcess = 0
    /\ base = Task
    /\ applied = <<>>
    /\ lastStatus = Task.Status
    /\ lastEvent = EventInfo("none", FALSE, NilRef)
    /\ dirty = FALSE

\* no request is being handled
HandlerInit ==
    /\ hpc = [r \in Requests |-> "idle"]
    /\ htaskID = [r \in Requests |-> ""]
    /\ hresult = [r \in Requests |-> NoResult]
    /\ herr = [r \in Requests |-> NoResult]
    /\ hcalls = [r \in Requests |-> <<>>]
    /\ hevent = [r \in Requests |-> NoResult]
    /\ umethod = "none"
    /\ ures = NoResult
    /\ uerr = NoResult
    /\ ucalls = <<>>
    /\ toWrite = [r \in Requests |-> 0]

\* a2a.Task values as the task store sees them.  A slice is <<>> when nil
\* and <<s>> when it has the elements s; Metadata as above.
NilSlice == <<>>
StoreTask(id, contextID, artifacts, metadata) ==
    [ID |-> id, ContextID |-> contextID, Artifacts |-> artifacts, Metadata |-> metadata]
\* the TaskIDs tasks are saved under, and the TaskIDs Get is called with:
\* no task ever has the ID "invalid"
StoreIDs == TaskIDs
GetIDs == StoreIDs \cup {"invalid"}
StoreContextIDs == {"id", "id2"}
\* the Artifacts the caller assigns: empty, or one artifact named "foo" or "bar"
StoreArtifacts == {<<<<>>>>, <<<<"foo">>>>, <<<<"bar">>>>}
\* the Metadata the caller assigns: make(map[string]any), a string under
\* "key", or a value of a type that is not registered with gob under "key"
StoreMetadata ==
    {<<<<>>>>, <<("key" :> "-modified")>>, <<("key" :> "forbiddenType{}")>>}
\* the Task the caller builds first
FirstStoreTasks ==
    {StoreTask(TaskIDOf(1), "id", a, m) :
        a \in {<<<<>>>>, <<<<"foo">>>>}, m \in {NilMetadata, <<<<>>>>}}

\* NewMem(), and a caller with one Task of its own
StoreInit ==
    /\ heap \in {<<v>> : v \in FirstStoreTasks}
    /\ tasks = [id \in GetIDs |-> NilRef]
    /\ held = {1}
    /\ sop = "none"
    /\ sid = ""
    /\ sgot = NilRef
    /\ serr = NoResult
    /\ snapshot = [id \in GetIDs |-> <<>>]
    /\ touched = {}
    /\ nMutate = 0

\* the state in which the other components run
StoreIdle ==
    /\ heap = <<StoreTask(TaskIDOf(1), "id", <<<<"foo">>>>, <<<<>>>>)>>
    /\ tasks = [id \in GetIDs |-> NilRef]
    /\ held = {1}
    /\ sop = "none"
    /\ sid = ""
    /\ sgot = NilRef
    /\ serr = NoResult
    /\ snapshot = [id \in GetIDs |-> <<>>]
    /\ touched = {}
    /\ nMutate = 0

\* NewInMemoryQueue(size): empty open channels, free semaphore, closed = false
QueueInit ==
    /\ size \in 1..QueueSize
    /\ events = <<>>
    /\ eventsClosed = FALSE
    /\ tokens = 0
    /\ closed = FALSE
    /\ closeChanClosed = FALSE
    /\ closeMu = NoProc
    /\ pc = [p \in Procs |-> "idle"]
    /\ ctxDone = [p \in Procs |-> FALSE]
    /\ arg = [p \in Writers |-> NoEvent]
    /\ result = [p \in Procs |-> NoResult]
    /\ got = [p \in Readers |-> NoEvent]
    /\ panicked = FALSE
    /\ nextEvent = 1
    /\ accepted = <<>>
    /\ delivered = <<>>
    /\ closeReturned = FALSE
    /\ afterClose = [p \in Writers |-> FALSE]
    /\ canceledAtCall = [p \in Writers |-> FALSE]

\* the whole server after construction: the queue, the queue manager, the
\* task update manager, the request handler and the task store
Init ==
    /\ QueueInit
    /\ ManagerInit
    /\ UpdateIdle
    /\ HandlerInit
    /\ StoreIdle

\* ------------------------------------------------------------- semaphore
\* s.tokens <- struct{}{} can proceed: the channel has a free slot
CanAcquire == tokens < SemaphoreCount

\* ----------------------------------------------------------------- Write
\* a goroutine calls q.Write(ctx, event); c: ctx is already canceled
WriteCall(p, c) ==
    /\ pc[p] = "idle"
    /\ nextEvent <= MaxWrites
    /\ pc' = [pc EXCEPT ![p] = "acquire"]
    /\ ctxDone' = [ctxDone EXCEPT ![p] = c]
    /\ arg' = [arg EXCEPT ![p] = nextEvent]
    /\ nextEvent' = nextEvent + 1
    /\ afterClose' = [afterClose EXCEPT ![p] = closeReturned]
    /\ canceledAtCall' = [canceledAtCall EXCEPT ![p] = c]
    /\ UNCHANGED <<otherVars, queueVars, result, got, accepted, delivered, closeReturned>>

\* WriteAcquire that takes the permit with acquire(), ignoring the context
WriteAcquireNoCtx(p) ==
    /\ pc[p] = "acquire"
    /\ CanAcquire
    /\ tokens' = tokens + 1
    /\ IF closed
          THEN /\ result' = [result EXCEPT ![p] = ErrQueueClosed]
               /\ pc' = [pc EXCEPT ![p] = "release"]
          ELSE /\ pc' = [pc EXCEPT ![p] = "select"]
               /\ UNCHANGED result
    /\ UNCHANGED <<otherVars, size, events, eventsClosed, closed, closeChanClosed, closeMu,
                   panicked, ctxDone, arg, got, historyVars>>

\* WriteAcquire without the test of q.closed
WriteAcquireNoClosedCheck(p) ==
    /\ pc[p] = "acquire"
    /\ \/ /\ CanAcquire
          /\ tokens' = tokens + 1
          /\ pc' = [pc EXCEPT ![p] = "select"]
          /\ UNCHANGED result
       \/ /\ ctxDone[p]
          /\ result' = [result EXCEPT ![p] = CtxErr]
          /\ pc' = [pc EXCEPT ![p] = "return"]
          /\ UNCHANGED tokens
    /\ UNCHANGED <<otherVars, size, events, eventsClosed, closed, closeChanClosed, closeMu,
                   panicked, ctxDone, arg, got, historyVars>>

\* q.semaphore.acquireWithContext(ctx): select { tokens <- ; <-ctx.Done() },
\* and with the token: if q.closed { return ErrQueueClosed }
WriteAcquire(p) ==
    /\ pc[p] = "acquire"
    /\ \/ /\ CanAcquire
          /\ tokens' = tokens + 1
          /\ IF closed
                THEN /\ result' = [result EXCEPT ![p] = ErrQueueClosed]
                     /\ pc' = [pc EXCEPT ![p] = "release"]
                ELSE /\ pc' = [pc EXCEPT ![p] = "select"]
                     /\ UNCHANGED result
       \/ /\ ctxDone[p]
          /\ result' = [result EXCEPT ![p] = CtxErr]
          /\ pc' = [pc EXCEPT ![p] = "return"]
          /\ UNCHANGED tokens
    /\ UNCHANGED <<otherVars, size, events, eventsClosed, closed, closeChanClosed, closeMu,
                   panicked, ctxDone, arg, got, historyVars>>

\* WriteSelect on a buffer without a bound: the send never blocks
WriteSelectUnbounded(p) ==
    /\ pc[p] = "select"
    /\ \/ /\ IF eventsClosed
                THEN /\ panicked' = TRUE
                     /\ UNCHANGED <<events, accepted, result>>
                ELSE /\ events' = Append(events, arg[p])
                     /\ accepted' = Append(accepted, arg[p])
                     /\ result' = [result EXCEPT ![p] = Nil]
                     /\ UNCHANGED panicked
       \/ /\ closeChanClosed
          /\ result' = [result EXCEPT ![p] = ErrQueueClosed]
          /\ UNCHANGED <<events, accepted, panicked>>
       \/ /\ ctxDone[p]
          /\ result' = [result EXCEPT ![p] = CtxErr]
          /\ UNCHANGED <<events, accepted, panicked>>
    /\ pc' = [pc EXCEPT ![p] = "release"]
    /\ UNCHANGED <<otherVars, size, eventsClosed, tokens, closed, closeChanClosed, closeMu,
                   ctxDone, arg, got, nextEvent, delivered, closeReturned,
                   afterClose, canceledAtCall>>

\* WriteSelect without the case <-ctx.Done()
WriteSelectNoCtx(p) ==
    /\ pc[p] = "select"
    /\ \/ /\ eventsClosed \/ Len(events) < size
          /\ IF eventsClosed
                THEN /\ panicked' = TRUE
                     /\ UNCHANGED <<events, accepted, result>>
                ELSE /\ events' = Append(events, arg[p])
                     /\ accepted' = Append(accepted, arg[p])
                     /\ result' = [result EXCEPT ![p] = Nil]
                     /\ UNCHANGED panicked
       \/ /\ closeChanClosed
          /\ result' = [result EXCEPT ![p] = ErrQueueClosed]
          /\ UNCHANGED <<events, accepted, panicked>>
    /\ pc' = [pc EXCEPT ![p] = "release"]
    /\ UNCHANGED <<otherVars, size, eventsClosed, tokens, closed, closeChanClosed, closeMu,
                   ctxDone, arg, got, nextEvent, delivered, closeReturned,
                   afterClose, canceledAtCall>>

\* WriteSelect without the case <-q.closeChan
WriteSelectNoCloseChan(p) ==
    /\ pc[p] = "select"
    /\ \/ /\ eventsClosed \/ Len(events) < size
          /\ IF eventsClosed
                THEN /\ panicked' = TRUE
                     /\ UNCHANGED <<events, accepted, result>>
                ELSE /\ events' = Append(events, arg[p])
                     /\ accepted' = Append(accepted, arg[p])
                     /\ result' = [result EXCEPT ![p] = Nil]
                     /\ UNCHANGED panicked
       \/ /\ ctxDone[p]
          /\ result' = [result EXCEPT ![p] = CtxErr]
          /\ UNCHANGED <<events, accepted, panicked>>
    /\ pc' = [pc EXCEPT ![p] = "release"]
    /\ UNCHANGED <<otherVars, size, eventsClosed, tokens, closed, closeChanClosed, closeMu,
                   ctxDone, arg, got, nextEvent, delivered, closeReturned,
                   afterClose, canceledAtCall>>

\* select { q.events <- event ; <-q.closeChan ; <-ctx.Done() }
\* a send on a closed channel is ready and panics
WriteSelect(p) ==
    /\ pc[p] = "select"
    /\ \/ /\ eventsClosed \/ Len(events) < size
          /\ IF eventsClosed
                THEN /\ panicked' = TRUE
                     /\ UNCHANGED <<events, accepted, result>>
                ELSE /\ events' = Append(events, arg[p])
                     /\ accepted' = Append(accepted, arg[p])
                     /\ result' = [result EXCEPT ![p] = Nil]
                     /\ UNCHANGED panicked
       \/ /\ closeChanClosed
          /\ result' = [result EXCEPT ![p] = ErrQueueClosed]
          /\ UNCHANGED <<events, accepted, panicked>>
       \/ /\ ctxDone[p]
          /\ result' = [result EXCEPT ![p] = CtxErr]
          /\ UNCHANGED <<events, accepted, panicked>>
    /\ pc' = [pc EXCEPT ![p] = "release"]
    /\ UNCHANGED <<otherVars, size, eventsClosed, tokens, closed, closeChanClosed, closeMu,
                   ctxDone, arg, got, nextEvent, delivered, closeReturned,
                   afterClose, canceledAtCall>>

\* WriteReturn without the deferred q.semaphore.release()
WriteReturnNoRelease(p) ==
    /\ pc[p] \in {"release", "return"}
    /\ pc' = [pc EXCEPT ![p] = "idle"]
    /\ ctxDone' = [ctxDone EXCEPT ![p] = FALSE]
    /\ arg' = [arg EXCEPT ![p] = NoEvent]
    /\ result' = [result EXCEPT ![p] = NoResult]
    /\ afterClose' = [afterClose EXCEPT ![p] = FALSE]
    /\ canceledAtCall' = [canceledAtCall EXCEPT ![p] = FALSE]
    /\ UNCHANGED <<otherVars, size, events, eventsClosed, tokens, closed, closeChanClosed,
                   closeMu, panicked, got, nextEvent, accepted, delivered, closeReturned>>

\* Write returns: the deferred q.semaphore.release() runs when the token was
\* taken; the context, the argument and the result go out of scope
WriteReturn(p) ==
    /\ pc[p] \in {"release", "return"}
    /\ IF pc[p] = "release"
          THEN tokens > 0 /\ tokens' = tokens - 1
          ELSE UNCHANGED tokens
    /\ pc' = [pc EXCEPT ![p] = "idle"]
    /\ ctxDone' = [ctxDone EXCEPT ![p] = FALSE]
    /\ arg' = [arg EXCEPT ![p] = NoEvent]
    /\ result' = [result EXCEPT ![p] = NoResult]
    /\ afterClose' = [afterClose EXCEPT ![p] = FALSE]
    /\ canceledAtCall' = [canceledAtCall EXCEPT ![p] = FALSE]
    /\ UNCHANGED <<otherVars, size, events, eventsClosed, closed, closeChanClosed, closeMu,
                   panicked, got, nextEvent, accepted, delivered, closeReturned>>

\* ------------------------------------------------------------------ Read
\* a goroutine calls q.Read(ctx); c: ctx is already canceled
ReadCall(p, c) ==
    /\ pc[p] = "idle"
    /\ pc' = [pc EXCEPT ![p] = "select"]
    /\ ctxDone' = [ctxDone EXCEPT ![p] = c]
    /\ UNCHANGED <<otherVars, queueVars, arg, result, got, historyVars>>

\* ReadSelect with a default case: an empty open buffer fails the Read
\* instead of blocking it
ReadSelectNonBlocking(p) ==
    /\ pc[p] = "select"
    /\ \/ /\ events # <<>>
          /\ events' = Tail(events)
          /\ got' = [got EXCEPT ![p] = Head(events)]
          /\ delivered' = Append(delivered, Head(events))
          /\ result' = [result EXCEPT ![p] = Nil]
       \/ /\ events = <<>>
          /\ result' = [result EXCEPT ![p] = ErrQueueClosed]
          /\ UNCHANGED <<events, got, delivered>>
       \/ /\ ctxDone[p]
          /\ result' = [result EXCEPT ![p] = CtxErr]
          /\ UNCHANGED <<events, got, delivered>>
    /\ pc' = [pc EXCEPT ![p] = "return"]
    /\ UNCHANGED <<otherVars, size, eventsClosed, tokens, closed, closeChanClosed, closeMu,
                   panicked, ctxDone, arg, nextEvent, accepted, closeReturned,
                   afterClose, canceledAtCall>>

\* ReadSelect on a buffer that hands out the newest event first
ReadSelectLifo(p) ==
    /\ pc[p] = "select"
    /\ \/ /\ events # <<>>
          /\ events' = SubSeq(events, 1, Len(events) - 1)
          /\ got' = [got EXCEPT ![p] = events[Len(events)]]
          /\ delivered' = Append(delivered, events[Len(events)])
          /\ result' = [result EXCEPT ![p] = Nil]
       \/ /\ events = <<>>
          /\ eventsClosed
          /\ result' = [result EXCEPT ![p] = ErrQueueClosed]
          /\ UNCHANGED <<events, got, delivered>>
       \/ /\ ctxDone[p]
          /\ result' = [result EXCEPT ![p] = CtxErr]
          /\ UNCHANGED <<events, got, delivered>>
    /\ pc' = [pc EXCEPT ![p] = "return"]
    /\ UNCHANGED <<otherVars, size, eventsClosed, tokens, closed, closeChanClosed, closeMu,
                   panicked, ctxDone, arg, nextEvent, accepted, closeReturned,
                   afterClose, canceledAtCall>>

\* ReadSelect that consults the closed state first: a terminated buffer
\* fails the Read although events are still buffered
ReadSelectClosedFirst(p) ==
    /\ pc[p] = "select"
    /\ \/ /\ events # <<>>
          /\ ~eventsClosed
          /\ events' = Tail(events)
          /\ got' = [got EXCEPT ![p] = Head(events)]
          /\ delivered' = Append(delivered, Head(events))
          /\ result' = [result EXCEPT ![p] = Nil]
       \/ /\ eventsClosed
          /\ result' = [result EXCEPT ![p] = ErrQueueClosed]
          /\ UNCHANGED <<events, got, delivered>>
       \/ /\ ctxDone[p]
          /\ result' = [result EXCEPT ![p] = CtxErr]
          /\ UNCHANGED <<events, got, delivered>>
    /\ pc' = [pc EXCEPT ![p] = "return"]
    /\ UNCHANGED <<otherVars, size, eventsClosed, tokens, closed, closeChanClosed, closeMu,
                   panicked, ctxDone, arg, nextEvent, accepted, closeReturned,
                   afterClose, canceledAtCall>>

\* ReadSelect on a channel whose close does not wake the receivers
ReadSelectIgnoresClose(p) ==
    /\ pc[p] = "select"
    /\ \/ /\ events # <<>>
          /\ events' = Tail(events)
          /\ got' = [got EXCEPT ![p] = Head(events)]
          /\ delivered' = Append(delivered, Head(events))
          /\ result' = [result EXCEPT ![p] = Nil]
       \/ /\ ctxDone[p]
          /\ result' = [result EXCEPT ![p] = CtxErr]
          /\ UNCHANGED <<events, got, delivered>>
    /\ pc' = [pc EXCEPT ![p] = "return"]
    /\ UNCHANGED <<otherVars, size, eventsClosed, tokens, closed, closeChanClosed, closeMu,
                   panicked, ctxDone, arg, nextEvent, accepted, closeReturned,
                   afterClose, canceledAtCall>>

\* ReadSelect that returns the oldest event and leaves it in the buffer
ReadSelectPeek(p) ==
    /\ pc[p] = "select"
    /\ \/ /\ events # <<>>
          /\ got' = [got EXCEPT ![p] = Head(events)]
          /\ delivered' = Append(delivered, Head(events))
          /\ result' = [result EXCEPT ![p] = Nil]
          /\ UNCHANGED events
       \/ /\ events = <<>>
          /\ eventsClosed
          /\ result' = [result EXCEPT ![p] = ErrQueueClosed]
          /\ UNCHANGED <<events, got, delivered>>
       \/ /\ ctxDone[p]
          /\ result' = [result EXCEPT ![p] = CtxErr]
          /\ UNCHANGED <<events, got, delivered>>
    /\ pc' = [pc EXCEPT ![p] = "return"]
    /\ UNCHANGED <<otherVars, size, eventsClosed, tokens, closed, closeChanClosed, closeMu,
                   panicked, ctxDone, arg, nextEvent, accepted, closeReturned,
                   afterClose, canceledAtCall>>

\* select { event, ok := <-q.events ; <-ctx.Done() }
\* a receive on a closed channel drains the buffer and then yields ok = false
ReadSelect(p) ==
    /\ pc[p] = "select"
    /\ \/ /\ events # <<>>
          /\ events' = Tail(events)
          /\ got' = [got EXCEPT ![p] = Head(events)]
          /\ delivered' = Append(delivered, Head(events))
          /\ result' = [result EXCEPT ![p] = Nil]
       \/ /\ events = <<>>
          /\ eventsClosed
          /\ result' = [result EXCEPT ![p] = ErrQueueClosed]
          /\ UNCHANGED <<events, got, delivered>>
       \/ /\ ctxDone[p]
          /\ result' = [result EXCEPT ![p] = CtxErr]
          /\ UNCHANGED <<events, got, delivered>>
    /\ pc' = [pc EXCEPT ![p] = "return"]
    /\ UNCHANGED <<otherVars, size, eventsClosed, tokens, closed, closeChanClosed, closeMu,
                   panicked, ctxDone, arg, nextEvent, accepted, closeReturned,
                   afterClose, canceledAtCall>>

\* Read returns: the context and the results go out of scope
ReadReturn(p) ==
    /\ pc[p] = "return"
    /\ pc' = [pc EXCEPT ![p] = "idle"]
    /\ ctxDone' = [ctxDone EXCEPT ![p] = FALSE]
    /\ result' = [result EXCEPT ![p] = NoResult]
    /\ got' = [got EXCEPT ![p] = NoEvent]
    /\ UNCHANGED <<otherVars, queueVars, arg, historyVars>>

\* the context of a Write or Read that still waits on it is canceled
Cancel(p) ==
    /\ pc[p] \in {"acquire", "select"}
    /\ ~ctxDone[p]
    /\ ctxDone' = [ctxDone EXCEPT ![p] = TRUE]
    /\ UNCHANGED <<otherVars, queueVars, pc, arg, result, got, historyVars>>

\* ----------------------------------------------------------------- Close
\* a goroutine calls q.Close()
CloseCall(p) ==
    /\ pc[p] = "idle"
    /\ pc' = [pc EXCEPT ![p] = "lock"]
    /\ UNCHANGED <<otherVars, queueVars, ctxDone, arg, result, got, historyVars>>

\* CloseLock without the test of q.closed: every call shuts down again
CloseLockNoCheck(p) ==
    /\ pc[p] = "lock"
    /\ closeMu = NoProc
    /\ closeMu' = p
    /\ closeChanClosed' = TRUE
    /\ panicked' = (panicked \/ closeChanClosed)
    /\ pc' = [pc EXCEPT ![p] = "acquire"]
    /\ UNCHANGED <<otherVars, size, events, eventsClosed, tokens, closed, ctxDone, arg,
                   result, got, historyVars>>

\* CloseLock with the test of q.closed inverted: if !q.closed { return nil }
CloseLockInverted(p) ==
    /\ pc[p] = "lock"
    /\ closeMu = NoProc
    /\ closeMu' = p
    /\ IF ~closed
          THEN /\ result' = [result EXCEPT ![p] = Nil]
               /\ pc' = [pc EXCEPT ![p] = "unlock"]
               /\ UNCHANGED <<closeChanClosed, panicked>>
          ELSE /\ closeChanClosed' = TRUE
               /\ panicked' = (panicked \/ closeChanClosed)
               /\ pc' = [pc EXCEPT ![p] = "acquire"]
               /\ UNCHANGED result
    /\ UNCHANGED <<otherVars, size, events, eventsClosed, tokens, closed, ctxDone, arg, got,
                   nextEvent, accepted, delivered, closeReturned, afterClose,
                   canceledAtCall>>

\* CloseLock without q.closeMu.Lock(): it does not wait for a Close under way
CloseLockNoMutex(p) ==
    /\ pc[p] = "lock"
    /\ closeMu' = p
    /\ IF closed
          THEN /\ result' = [result EXCEPT ![p] = Nil]
               /\ pc' = [pc EXCEPT ![p] = "unlock"]
               /\ UNCHANGED <<closeChanClosed, panicked>>
          ELSE /\ closeChanClosed' = TRUE
               /\ panicked' = (panicked \/ closeChanClosed)
               /\ pc' = [pc EXCEPT ![p] = "acquire"]
               /\ UNCHANGED result
    /\ UNCHANGED <<otherVars, size, events, eventsClosed, tokens, closed, ctxDone, arg, got,
                   nextEvent, accepted, delivered, closeReturned, afterClose,
                   canceledAtCall>>

\* CloseLock that goes for the permit without close(q.closeChan)
CloseLockNoBroadcast(p) ==
    /\ pc[p] = "lock"
    /\ closeMu = NoProc
    /\ closeMu' = p
    /\ IF closed
          THEN /\ result' = [result EXCEPT ![p] = Nil]
               /\ pc' = [pc EXCEPT ![p] = "unlock"]
          ELSE /\ pc' = [pc EXCEPT ![p] = "acquire"]
               /\ UNCHANGED result
    /\ UNCHANGED <<otherVars, size, events, eventsClosed, tokens, closed, closeChanClosed,
                   panicked, ctxDone, arg, got, nextEvent, accepted, delivered,
                   closeReturned, afterClose, canceledAtCall>>

\* q.closeMu.Lock(); if q.closed { return nil }; close(q.closeChan)
\* closing a closed channel panics
CloseLock(p) ==
    /\ pc[p] = "lock"
    /\ closeMu = NoProc
    /\ closeMu' = p
    /\ IF closed
          THEN /\ result' = [result EXCEPT ![p] = Nil]
               /\ pc' = [pc EXCEPT ![p] = "unlock"]
               /\ UNCHANGED <<closeChanClosed, panicked>>
          ELSE /\ closeChanClosed' = TRUE
               /\ panicked' = (panicked \/ closeChanClosed)
               /\ pc' = [pc EXCEPT ![p] = "acquire"]
               /\ UNCHANGED result
    /\ UNCHANGED <<otherVars, size, events, eventsClosed, tokens, closed, ctxDone, arg, got,
                   nextEvent, accepted, delivered, closeReturned, afterClose,
                   canceledAtCall>>

\* CloseAcquire without q.semaphore.acquire(): the buffer is terminated
\* whoever holds the permit
CloseAcquireNoPermit(p) ==
    /\ pc[p] = "acquire"
    /\ eventsClosed' = TRUE
    /\ panicked' = (panicked \/ eventsClosed)
    /\ closed' = TRUE
    /\ result' = [result EXCEPT ![p] = Nil]
    /\ pc' = [pc EXCEPT ![p] = "unlock"]
    /\ UNCHANGED <<otherVars, size, events, tokens, closeChanClosed, closeMu, ctxDone, arg,
                   got, historyVars>>

\* q.semaphore.acquire(); close(q.events); q.closed = true; return nil
CloseAcquire(p) ==
    /\ pc[p] = "acquire"
    /\ CanAcquire
    /\ tokens' = tokens + 1
    /\ eventsClosed' = TRUE
    /\ panicked' = (panicked \/ eventsClosed)
    /\ closed' = TRUE
    /\ result' = [result EXCEPT ![p] = Nil]
    /\ pc' = [pc EXCEPT ![p] = "release"]
    /\ UNCHANGED <<otherVars, size, events, closeChanClosed, closeMu, ctxDone, arg, got,
                   historyVars>>

\* Close returns: the deferred q.semaphore.release() runs when the token was
\* taken, then the deferred q.closeMu.Unlock()
CloseReturn(p) ==
    /\ pc[p] \in {"release", "unlock"}
    /\ closeMu = p
    /\ IF pc[p] = "release"
          THEN tokens > 0 /\ tokens' = tokens - 1
          ELSE UNCHANGED tokens
    /\ closeMu' = NoProc
    /\ pc' = [pc EXCEPT ![p] = "idle"]
    /\ result' = [result EXCEPT ![p] = NoResult]
    /\ closeReturned' = TRUE
    /\ UNCHANGED <<otherVars, size, events, eventsClosed, closed, closeChanClosed, panicked,
                   ctxDone, arg, got, nextEvent, accepted, delivered,
                   afterClose, canceledAtCall>>

\* ------------------------------------------------------------ the system
\* one step of a call that is under way (the goroutine is scheduled)
WriterStep(p) == WriteAcquire(p) \/ WriteSelect(p) \/ WriteReturn(p)
ReaderStep(p) == ReadSelect(p) \/ ReadReturn(p)
CloserStep(p) == CloseLock(p) \/ CloseAcquire(p) \/ CloseReturn(p)

Next ==
    \/ \E p \in Writers : \E c \in BOOLEAN : WriteCall(p, c)
    \/ \E p \in Writers : WriterStep(p)
    \/ \E p \in OneReader : \E c \in BOOLEAN : ReadCall(p, c)
    \/ \E p \in Readers : ReaderStep(p)
    \/ \E p \in Writers \cup Readers : Cancel(p)
    \/ \E p \in Closers : CloseCall(p)
    \/ \E p \in Closers : CloserStep(p)

Spec == Init /\ [][Next]_vars

\* The Go scheduler runs every goroutine that can take a step; calls and
\* cancellations come from the environment and are not forced.
Fairness ==
    /\ \A p \in Writers : WF_vars(WriterStep(p))
    /\ \A p \in Readers : WF_vars(ReaderStep(p))
    /\ \A p \in Closers : WF_vars(CloserStep(p))

\* the behaviours checked under fairness: the environment makes at most
\* FairWrites Write calls and calls Close from one goroutine
FairNext ==
    \/ \E p \in Writers : \E c \in BOOLEAN : nextEvent <= FairWrites /\ WriteCall(p, c)
    \/ \E p \in Writers : WriterStep(p)
    \/ \E p \in OneReader : \E c \in BOOLEAN : ReadCall(p, c)
    \/ \E p \in Readers : ReaderStep(p)
    \/ \E p \in Writers \cup Readers : Cancel(p)
    \/ \E p \in Closers : p[2] = 1 /\ CloseCall(p)
    \/ \E p \in Closers : CloserStep(p)

FairSpec == Init /\ [][FairNext]_vars /\ Fairness

\* concurrent Reads: every reader goroutine calls Read, with a live context,
\* next to the writers (whose context may be canceled at the call or while
\* they wait) and one goroutine that calls Close
ReadersNext ==
    \/ \E p \in Writers : \E c \in BOOLEAN : WriteCall(p, c)
    \/ \E p \in Writers : WriterStep(p)
    \/ \E p \in Readers : ReadCall(p, FALSE)
    \/ \E p \in Writers : Cancel(p)
    \/ \E p \in Readers : ReaderStep(p)
    \/ \E p \in Closers : p[2] = 1 /\ CloseCall(p)
    \/ \E p \in Closers : CloserStep(p)

ReadersSpec == Init /\ [][ReadersNext]_vars

TypeOK ==
    /\ size \in 1..QueueSize
    /\ events \in Seq(1..MaxWrites) /\ Len(events) <= size
    /\ tokens \in 0..SemaphoreCount
    /\ closed \in BOOLEAN /\ eventsClosed \in BOOLEAN
    /\ closeChanClosed \in BOOLEAN
    /\ closeMu \in Closers \cup {NoProc}
    /\ panicked \in BOOLEAN

\* ====================================================== the queue manager
\* inMemoryManager (a2asrv/eventqueue/manager_in_memory_impl.go).  A client is
\* a goroutine that calls GetOrCreate and Destroy and writes to the queue it
\* got.  A manager call takes two steps: the call up to and with m.mu.Lock()
\* and the map lookup, and the rest of the critical section with the deferred
\* m.mu.Unlock().  A call that waits for the mutex has done nothing yet.

\* the variables of the queue of part 1, which the manager's actions leave alone
queuePartVars == <<size, events, eventsClosed, tokens, closed, closeChanClosed,
                   closeMu, pc, ctxDone, arg, result, got, panicked, nextEvent,
                   accepted, delivered, closeReturned, afterClose, canceledAtCall>>
\* the variables the manager's actions leave alone
notManagerVars == <<queuePartVars, updateVars, handlerVars, storeVars>>

\* the clients inside a GetOrCreate call, each of which may create a queue
Creating == {d \in Clients : mpc[d] # "idle" /\ mop[d] = "GetOrCreate"}

\* GetOrCreateLock without m.mu.Lock(): the lookup runs unprotected
GetOrCreateLockNoMutex(c, t) ==
    /\ mpc[c] = "idle"
    /\ nextQueue + Cardinality(Creating) <= MaxQueues
    /\ mop' = [mop EXCEPT ![c] = "GetOrCreate"]
    /\ mtaskId' = [mtaskId EXCEPT ![c] = t]
    /\ merr' = [merr EXCEPT ![c] = NoResult]
    /\ mok' = [mok EXCEPT ![c] = queues[t] # NoQueue]
    /\ mpc' = [mpc EXCEPT ![c] = "locked"]
    /\ UNCHANGED <<mu, queues, nextQueue, queueClosed, handle, queueTask,
                   destroyed, notManagerVars>>

\* a client calls m.GetOrCreate(ctx, t):  m.mu.Lock(); _, ok := m.queues[taskId]
GetOrCreateLock(c, t) ==
    /\ mpc[c] = "idle"
    /\ nextQueue + Cardinality(Creating) <= MaxQueues
    /\ mu = NoProc
    /\ mu' = c
    /\ mop' = [mop EXCEPT ![c] = "GetOrCreate"]
    /\ mtaskId' = [mtaskId EXCEPT ![c] = t]
    /\ merr' = [merr EXCEPT ![c] = NoResult]
    /\ mok' = [mok EXCEPT ![c] = queues[t] # NoQueue]
    /\ mpc' = [mpc EXCEPT ![c] = "locked"]
    /\ UNCHANGED <<queues, nextQueue, queueClosed, handle, queueTask,
                   destroyed, notManagerVars>>

\* if !ok { m.queues[taskId] = NewInMemoryQueue(defaultMaxQueueSize) }
\* return m.queues[taskId], nil  (and the deferred m.mu.Unlock())
GetOrCreateReturn(c) ==
    /\ mpc[c] = "locked"
    /\ mop[c] = "GetOrCreate"
    /\ IF mok[c]
          THEN UNCHANGED <<queues, nextQueue, queueTask>>
          ELSE /\ queues' = [queues EXCEPT ![mtaskId[c]] = nextQueue]
               /\ nextQueue' = nextQueue + 1
               /\ queueTask' = [queueTask EXCEPT ![nextQueue] = mtaskId[c]]
    /\ handle' = [handle EXCEPT ![c] = queues'[mtaskId[c]]]
    /\ merr' = [merr EXCEPT ![c] = Nil]
    /\ mu' = NoProc
    /\ mop' = [mop EXCEPT ![c] = "none"]
    /\ mtaskId' = [mtaskId EXCEPT ![c] = ""]
    /\ mok' = [mok EXCEPT ![c] = FALSE]
    /\ mpc' = [mpc EXCEPT ![c] = "idle"]
    /\ UNCHANGED <<queueClosed, destroyed, notManagerVars>>

\* DestroyLock without m.mu.Lock(): the lookup runs unprotected
DestroyLockNoMutex(c, t) ==
    /\ mpc[c] = "idle"
    /\ mop' = [mop EXCEPT ![c] = "Destroy"]
    /\ mtaskId' = [mtaskId EXCEPT ![c] = t]
    /\ merr' = [merr EXCEPT ![c] = NoResult]
    /\ mok' = [mok EXCEPT ![c] = queues[t] # NoQueue]
    /\ mpc' = [mpc EXCEPT ![c] = "locked"]
    /\ UNCHANGED <<mu, queues, nextQueue, queueClosed, handle, queueTask,
                   destroyed, notManagerVars>>

\* a client calls m.Destroy(ctx, t):  m.mu.Lock(); _, ok := m.queues[taskId]
DestroyLock(c, t) ==
    /\ mpc[c] = "idle"
    /\ mu = NoProc
    /\ mu' = c
    /\ mop' = [mop EXCEPT ![c] = "Destroy"]
    /\ mtaskId' = [mtaskId EXCEPT ![c] = t]
    /\ merr' = [merr EXCEPT ![c] = NoResult]
    /\ mok' = [mok EXCEPT ![c] = queues[t] # NoQueue]
    /\ mpc' = [mpc EXCEPT ![c] = "locked"]
    /\ UNCHANGED <<queues, nextQueue, queueClosed, handle, queueTask,
                   destroyed, notManagerVars>>

\* DestroyReturn that removes the map entry without closing the queue
DestroyReturnNoClose(c) ==
    /\ mpc[c] = "locked"
    /\ mop[c] = "Destroy"
    /\ IF mok[c]
          THEN /\ queues' = [queues EXCEPT ![mtaskId[c]] = NoQueue]
               /\ destroyed' = destroyed \cup {queues[mtaskId[c]]}
               /\ merr' = [merr EXCEPT ![c] = Nil]
          ELSE /\ merr' = [merr EXCEPT ![c] = ErrNotExist(mtaskId[c])]
               /\ UNCHANGED <<queues, destroyed>>
    /\ mu' = NoProc
    /\ mop' = [mop EXCEPT ![c] = "none"]
    /\ mtaskId' = [mtaskId EXCEPT ![c] = ""]
    /\ mok' = [mok EXCEPT ![c] = FALSE]
    /\ mpc' = [mpc EXCEPT ![c] = "idle"]
    /\ UNCHANGED <<nextQueue, queueClosed, handle, queueTask, notManagerVars>>

\* DestroyReturn that takes a missing entry for the desired state: returns nil
DestroyReturnMissingOk(c) ==
    /\ mpc[c] = "locked"
    /\ mop[c] = "Destroy"
    /\ IF mok[c]
          THEN /\ queueClosed' = [queueClosed EXCEPT ![queues[mtaskId[c]]] = TRUE]
               /\ queues' = [queues EXCEPT ![mtaskId[c]] = NoQueue]
               /\ destroyed' = destroyed \cup {queues[mtaskId[c]]}
          ELSE UNCHANGED <<queueClosed, queues, destroyed>>
    /\ merr' = [merr EXCEPT ![c] = Nil]
    /\ mu' = NoProc
    /\ mop' = [mop EXCEPT ![c] = "none"]
    /\ mtaskId' = [mtaskId EXCEPT ![c] = ""]
    /\ mok' = [mok EXCEPT ![c] = FALSE]
    /\ mpc' = [mpc EXCEPT ![c] = "idle"]
    /\ UNCHANGED <<nextQueue, handle, queueTask, notManagerVars>>

\* if !ok { return fmt.Errorf(...) }
\* queue := m.queues[taskId]; _ = queue.Close(); delete(m.queues, taskId)
\* return nil  (and the deferred m.mu.Unlock())
DestroyReturn(c) ==
    /\ mpc[c] = "locked"
    /\ mop[c] = "Destroy"
    /\ IF mok[c]
          THEN /\ queueClosed' = [queueClosed EXCEPT ![queues[mtaskId[c]]] = TRUE]
               /\ queues' = [queues EXCEPT ![mtaskId[c]] = NoQueue]
               /\ destroyed' = destroyed \cup {queues[mtaskId[c]]}
               /\ merr' = [merr EXCEPT ![c] = Nil]
          ELSE /\ merr' = [merr EXCEPT ![c] = ErrNotExist(mtaskId[c])]
               /\ UNCHANGED <<queueClosed, queues, destroyed>>
    /\ mu' = NoProc
    /\ mop' = [mop EXCEPT ![c] = "none"]
    /\ mtaskId' = [mtaskId EXCEPT ![c] = ""]
    /\ mok' = [mok EXCEPT ![c] = FALSE]
    /\ mpc' = [mpc EXCEPT ![c] = "idle"]
    /\ UNCHANGED <<nextQueue, handle, queueTask, notManagerVars>>

\* a client calls Write(ctx, event), with a live context, on the queue its
\* last GetOrCreate returned (inMemoryQueue.Write run from call to return):
\* ErrQueueClosed if q.closed, else the event goes into the buffer of
\* defaultMaxQueueSize events, whose contents this part does not track
HandleWrite(c) ==
    /\ mpc[c] = "idle"
    /\ handle[c] # NoQueue
    /\ merr' = [merr EXCEPT ![c] = IF queueClosed[handle[c]] THEN ErrQueueClosed ELSE Nil]
    /\ UNCHANGED <<mu, queues, nextQueue, queueClosed, mpc, mop, mtaskId, mok,
                   handle, queueTask, destroyed, notManagerVars>>

ManagerNext ==
    \/ \E c \in Clients : \E t \in TaskIDs : GetOrCreateLock(c, t)
    \/ \E c \in Clients : GetOrCreateReturn(c)
    \/ \E c \in Clients : \E t \in TaskIDs : DestroyLock(c, t)
    \/ \E c \in Clients : DestroyReturn(c)
    \/ \E c \in Clients : HandleWrite(c)

\* the manager runs on its own: the queue of part 1 stays as constructed
\* (with the smallest capacity)
ManagerStart == Init /\ size = 1


ManagerSpec == ManagerStart /\ [][ManagerNext]_vars

ManagerTypeOK ==
    /\ mu \in Clients \cup {NoProc}
    /\ queues \in [TaskIDs -> QueueRefs \cup {NoQueue}]
    /\ nextQueue \in 1..(MaxQueues + 1)
    /\ queueClosed \in [QueueRefs -> BOOLEAN]
    /\ handle \in [Clients -> QueueRefs \cup {NoQueue}]
    /\ destroyed \subseteq QueueRefs

\* ------------------------------------------ Destroy of a queue in use
\* The manager with the queue of part 1 as one of its queues: Destroy runs
\* queue.Close() inside its critical section, step by step, while writers
\* are at work on that queue and nothing is read from it, so that a full
\* buffer stays full.  The other queues stay abstract.

\* the QueueRef of the queue of part 1, and the goroutine name under which a
\* client runs its Close
LiveQueue == 1
DestroyCloser == <<"c", 1>>

\* the first client has called GetOrCreate for the first task id and got
\* the queue of part 1
DestroyStart ==
    /\ QueueInit /\ size = 1
    /\ mu = NoProc
    /\ queues = [t \in TaskIDs |-> IF t = TaskIDOf(1) THEN LiveQueue ELSE NoQueue]
    /\ nextQueue = LiveQueue + 1
    /\ queueClosed = [q \in QueueRefs |-> FALSE]
    /\ mpc = [c \in Clients |-> "idle"]
    /\ mop = [c \in Clients |-> "none"]
    /\ mtaskId = [c \in Clients |-> ""]
    /\ mok = [c \in Clients |-> FALSE]
    /\ merr = [c \in Clients |-> IF c = <<"m", 1>> THEN Nil ELSE NoResult]
    /\ handle = [c \in Clients |-> IF c = <<"m", 1>> THEN LiveQueue ELSE NoQueue]
    /\ queueTask = [q \in QueueRefs |-> IF q = LiveQueue THEN TaskIDOf(1) ELSE ""]
    /\ destroyed = {}
    /\ UpdateIdle
    /\ HandlerInit
    /\ StoreIdle

\* Destroy of a queue other than the queue of part 1, or of no queue
DestroyOther(c) ==
    /\ mok[c] => queues[mtaskId[c]] # LiveQueue
    /\ DestroyReturn(c)

\* queue := m.queues[taskId]; queue.Close() is called, with m.mu held
DestroyClose(c) ==
    /\ mpc[c] = "locked"
    /\ mop[c] = "Destroy"
    /\ mok[c]
    /\ queues[mtaskId[c]] = LiveQueue
    /\ pc[DestroyCloser] = "idle"
    /\ pc' = [pc EXCEPT ![DestroyCloser] = "lock"]
    /\ mpc' = [mpc EXCEPT ![c] = "closing"]
    /\ UNCHANGED <<mu, queues, nextQueue, queueClosed, mop, mtaskId, mok, merr, handle,
                   queueTask, destroyed, queueVars, ctxDone, arg, result, got,
                   historyVars, updateVars, handlerVars, storeVars>>

\* queue.Close() has returned: delete(m.queues, taskId); return nil (and the
\* deferred m.mu.Unlock())
DestroyClosed(c) ==
    /\ mpc[c] = "closing"
    /\ pc[DestroyCloser] = "idle"
    /\ queueClosed' = [queueClosed EXCEPT ![LiveQueue] = TRUE]
    /\ queues' = [queues EXCEPT ![mtaskId[c]] = NoQueue]
    /\ destroyed' = destroyed \cup {LiveQueue}
    /\ merr' = [merr EXCEPT ![c] = Nil]
    /\ mu' = NoProc
    /\ mop' = [mop EXCEPT ![c] = "none"]
    /\ mtaskId' = [mtaskId EXCEPT ![c] = ""]
    /\ mok' = [mok EXCEPT ![c] = FALSE]
    /\ mpc' = [mpc EXCEPT ![c] = "idle"]
    /\ UNCHANGED <<nextQueue, handle, queueTask, notManagerVars>>

\* one step of a manager call that is under way
ClientStep(c) ==
    GetOrCreateReturn(c) \/ DestroyOther(c) \/ DestroyClose(c) \/ DestroyClosed(c)

\* the writers' contexts are never canceled, and at most FairWrites events
\* are written
DestroyNext ==
    \/ \E p \in Writers : nextEvent <= FairWrites /\ WriteCall(p, FALSE)
    \/ \E p \in Writers : WriterStep(p)
    \/ CloserStep(DestroyCloser)
    \/ \E c \in Clients : \E t \in TaskIDs : GetOrCreateLock(c, t)
    \/ \E c \in Clients : \E t \in TaskIDs : DestroyLock(c, t)
    \/ \E c \in Clients : ClientStep(c)

\* the scheduler runs every goroutine that can take a step; the calls come
\* from the environment and are not forced
DestroyFairness ==
    /\ \A p \in Writers : WF_vars(WriterStep(p))
    /\ WF_vars(CloserStep(DestroyCloser))
    /\ \A c \in Clients : WF_vars(ClientStep(c))

DestroySpec == DestroyStart /\ [][DestroyNext]_vars /\ DestroyFairness

\* ================================================ the task update manager
\* taskupdate.Manager (internal/taskupdate/manager.go).  Process runs from call
\* to return in one step: the manager has no lock and is driven by one
\* goroutine.  The Saver is an interface: Save stores the Task it is given or
\* fails, as the test's testSaver does.

\* the variables the task update manager's actions leave alone
notUpdateVars == <<queuePartVars, managerVars, handlerVars, storeVars>>

ErrTaskNotSet == "event processor Task not set"
ErrNotImplemented == "not implemented"
ErrSaverFailed == "saver failed"

\* the a2a.TaskState values for which TaskState.Terminal() is true
TerminalStates == {"completed", "canceled", "failed", "rejected"}
\* the a2a.TaskState values of the status updates: a state that is not
\* terminal, and the terminal ones
EventStates == {"working"} \cup TerminalStates
\* the Status of the n-th event: with a new Message (a2a.NewMessage) or none
EventStatuses(n) == {TaskStatus(st, m) : st \in EventStates, m \in {NoMessage, n}}
\* the Metadata of an event: nil or one of the maps of the test
EventMetadata ==
    {NilMetadata, <<("foo" :> "bar")>>, <<("foo" :> "bar2") @@ ("hello" :> "world")>>}
\* the TaskID / ContextID of an event: the managed Task's, that with "1"
\* appended, or the empty string
EventIDs(id) == {id, id \o "1", ""}
\* the <<TaskID, ContextID>> of an event: those of the managed Task, or with
\* one of the two changed (the cases of TestManager_IDValidationFailure)
EventIdentities ==
    {<<id, Task.ContextID>> : id \in EventIDs(Task.ID)}
        \cup {<<Task.ID, cid>> : cid \in EventIDs(Task.ContextID)}

\* validate that looks at the task id only
validateIDOnly(task, taskID, contextID) ==
    IF task.ID # taskID
       THEN "task IDs don't match: " \o task.ID \o " != " \o taskID
       ELSE Nil

\* mgr.validate(taskID, contextID)
validate(task, taskID, contextID) ==
    IF task.ID # taskID
       THEN "task IDs don't match: " \o task.ID \o " != " \o taskID
       ELSE IF task.ContextID # contextID
               THEN "context IDs don't match: " \o task.ContextID \o " != " \o contextID
               ELSE Nil

\* for k, v := range src { dst[k] = v }
MergeMap(dst, src) ==
    [k \in DOMAIN dst \cup DOMAIN src |-> IF k \in DOMAIN src THEN src[k] ELSE dst[k]]

\* updateStatus that puts the new status message into History
updateStatusNewMessage(task, status, metadata) ==
    LET history == IF status.Message # NoMessage
                      THEN Append(task.History, status.Message)
                      ELSE task.History
        meta == IF metadata # NilMetadata
                   THEN IF task.Metadata = NilMetadata
                           THEN <<MergeMap(<<>>, metadata[1])>>
                           ELSE <<MergeMap(task.Metadata[1], metadata[1])>>
                   ELSE task.Metadata
    IN  [task EXCEPT !.History = history, !.Metadata = meta, !.Status = status]

\* updateStatus that replaces the Metadata map by the event's
updateStatusReplaceMetadata(task, status, metadata) ==
    LET history == IF task.Status.Message # NoMessage
                      THEN Append(task.History, task.Status.Message)
                      ELSE task.History
        meta == IF metadata # NilMetadata THEN metadata ELSE task.Metadata
    IN  [task EXCEPT !.History = history, !.Metadata = meta, !.Status = status]

\* updateStatus with a transition guard: a Task in a terminal state keeps its
\* Status, History and Metadata
updateStatusKeepTerminal(task, status, metadata) ==
    LET history == IF task.Status.Message # NoMessage
                      THEN Append(task.History, task.Status.Message)
                      ELSE task.History
        meta == IF metadata # NilMetadata
                   THEN IF task.Metadata = NilMetadata
                           THEN <<MergeMap(<<>>, metadata[1])>>
                           ELSE <<MergeMap(task.Metadata[1], metadata[1])>>
                   ELSE task.Metadata
    IN  IF task.Status.State \in TerminalStates
           THEN task
           ELSE [task EXCEPT !.History = history, !.Metadata = meta, !.Status = status]

\* mgr.updateStatus(ctx, event), up to the Save: the Task object after the
\* three assignments
updateStatus(task, status, metadata) ==
    LET history == IF task.Status.Message # NoMessage
                      THEN Append(task.History, task.Status.Message)
                      ELSE task.History
        meta == IF metadata # NilMetadata
                   THEN IF task.Metadata = NilMetadata
                           THEN <<MergeMap(<<>>, metadata[1])>>
                           ELSE <<MergeMap(task.Metadata[1], metadata[1])>>
                   ELSE task.Metadata
    IN  [task EXCEPT !.History = history, !.Metadata = meta, !.Status = status]

\* the event's ids are those of the managed Task
Matches(taskID, contextID) == taskID = Task.ID /\ contextID = Task.ContextID

\* Process returns err before it reaches the Saver: nothing changes
ProcessRejects(err) ==
    /\ perr' = err
    /\ nProcess' = nProcess + 1
    /\ UNCHANGED <<taskRef, Task, saved, saveCalls, base, applied, lastStatus, dirty,
                   notUpdateVars>>

\* ProcessMessage that validates the message's ids as it does for the other events
ProcessMessageValidates(taskID, contextID) ==
    /\ nProcess < MaxEvents
    /\ lastEvent' = EventInfo("Message", Matches(taskID, contextID), NilRef)
    /\ ProcessRejects(
          IF taskRef = NilRef THEN ErrTaskNotSet ELSE validate(Task, taskID, contextID))

\* Process(ctx, event) with a *a2a.Message
ProcessMessage(taskID, contextID) ==
    /\ nProcess < MaxEvents
    /\ lastEvent' = EventInfo("Message", Matches(taskID, contextID), NilRef)
    /\ ProcessRejects(IF taskRef = NilRef THEN ErrTaskNotSet ELSE Nil)

\* ProcessArtifactUpdate that drops the event: updateArtifact returns nil
ProcessArtifactUpdateSilent(taskID, contextID) ==
    /\ nProcess < MaxEvents
    /\ lastEvent' = EventInfo("TaskArtifactUpdate", Matches(taskID, contextID), NilRef)
    /\ ProcessRejects(
          IF taskRef = NilRef THEN ErrTaskNotSet
          ELSE IF validate(Task, taskID, contextID) # Nil
                  THEN validate(Task, taskID, contextID)
                  ELSE Nil)

\* Process(ctx, event) with a *a2a.TaskArtifactUpdateEvent
ProcessArtifactUpdate(taskID, contextID) ==
    /\ nProcess < MaxEvents
    /\ lastEvent' = EventInfo("TaskArtifactUpdate", Matches(taskID, contextID), NilRef)
    /\ ProcessRejects(
          IF taskRef = NilRef THEN ErrTaskNotSet
          ELSE IF validate(Task, taskID, contextID) # Nil
                  THEN validate(Task, taskID, contextID)
                  ELSE ErrNotImplemented)

\* ProcessTask that replaces mgr.Task before it saves
ProcessTaskAssignFirst(ref, v, fail) ==
    /\ nProcess < MaxEvents
    /\ ref = taskRef => v = Task
    /\ lastEvent' = EventInfo("Task", Matches(v.ID, v.ContextID), ref)
    /\ IF taskRef = NilRef
          THEN ProcessRejects(ErrTaskNotSet)
          ELSE IF validate(Task, v.ID, v.ContextID) # Nil
                  THEN ProcessRejects(validate(Task, v.ID, v.ContextID))
                  ELSE /\ saveCalls' = saveCalls + 1
                       /\ nProcess' = nProcess + 1
                       /\ taskRef' = ref
                       /\ Task' = v
                       /\ IF fail
                             THEN /\ perr' = ErrSaverFailed
                                  /\ UNCHANGED <<saved, base, applied, lastStatus, dirty>>
                             ELSE /\ saved' = <<[ref |-> ref, task |-> v]>>
                                  /\ base' = v
                                  /\ applied' = <<>>
                                  /\ lastStatus' = v.Status
                                  /\ dirty' = FALSE
                                  /\ perr' = Nil
                       /\ UNCHANGED notUpdateVars

\* Process(ctx, event) with a *a2a.Task v: the object ref with the fields v
\* (mgr.Task itself, or another object); fail: the Saver fails
ProcessTask(ref, v, fail) ==
    /\ nProcess < MaxEvents
    /\ ref = taskRef => v = Task
    /\ lastEvent' = EventInfo("Task", Matches(v.ID, v.ContextID), ref)
    /\ IF taskRef = NilRef
          THEN ProcessRejects(ErrTaskNotSet)
          ELSE IF validate(Task, v.ID, v.ContextID) # Nil
                  THEN ProcessRejects(validate(Task, v.ID, v.ContextID))
                  ELSE /\ saveCalls' = saveCalls + 1
                       /\ nProcess' = nProcess + 1
                       /\ IF fail
                             THEN /\ perr' = ErrSaverFailed
                                  /\ UNCHANGED <<taskRef, Task, saved, base, applied,
                                                 lastStatus, dirty>>
                             ELSE /\ saved' = <<[ref |-> ref, task |-> v]>>
                                  /\ taskRef' = ref
                                  /\ Task' = v
                                  /\ base' = v
                                  /\ applied' = <<>>
                                  /\ lastStatus' = v.Status
                                  /\ dirty' = FALSE
                                  /\ perr' = Nil
                       /\ UNCHANGED notUpdateVars

\* Process(ctx, event) with a *a2a.TaskStatusUpdateEvent; fail: the Saver fails
ProcessStatusUpdate(taskID, contextID, status, metadata, fail) ==
    /\ nProcess < MaxEvents
    /\ lastEvent' = EventInfo("TaskStatusUpdate", Matches(taskID, contextID), NilRef)
    /\ IF taskRef = NilRef
          THEN ProcessRejects(ErrTaskNotSet)
          ELSE IF validate(Task, taskID, contextID) # Nil
                  THEN ProcessRejects(validate(Task, taskID, contextID))
                  ELSE /\ Task' = updateStatus(Task, status, metadata)
                       /\ saveCalls' = saveCalls + 1
                       /\ nProcess' = nProcess + 1
                       /\ IF fail
                             THEN /\ perr' = ErrSaverFailed
                                  /\ dirty' = TRUE
                                  /\ UNCHANGED <<saved, applied, lastStatus>>
                             ELSE /\ saved' = <<[ref |-> taskRef, task |-> Task']>>
                                  /\ perr' = Nil
                                  /\ applied' = Append(applied,
                                         [Message |-> status.Message, Metadata |-> metadata])
                                  /\ lastStatus' = status
                                  /\ UNCHANGED dirty
                       /\ UNCHANGED <<taskRef, base, notUpdateVars>>

\* the Task objects a snapshot event can be: mgr.Task itself, or a new object
\* with the identity given and a status of its own
SnapshotRefs == {taskRef, nProcess + 2}
Snapshots(ref) ==
    IF ref = taskRef
       THEN {Task}
       ELSE {NewTask(i[1], i[2], st, <<>>, NilMetadata) :
                i \in EventIdentities, st \in EventStatuses(nProcess + 1)}

UpdateNext ==
    \/ \E i \in EventIdentities : ProcessMessage(i[1], i[2])
    \/ \E i \in EventIdentities : ProcessArtifactUpdate(i[1], i[2])
    \/ \E ref \in SnapshotRefs : \E v \in Snapshots(ref) : \E fail \in BOOLEAN :
          ProcessTask(ref, v, fail)
    \/ \E i \in EventIdentities : \E st \in EventStatuses(nProcess + 1) :
          \E md \in EventMetadata : \E fail \in BOOLEAN :
             ProcessStatusUpdate(i[1], i[2], st, md, fail)

\* the task update manager runs on its own, from NewManager(saver, task) with
\* any of the initial Tasks or with a nil Task
UpdateStart ==
    /\ QueueInit /\ size = 1
    /\ ManagerInit
    /\ UpdateInit
    /\ HandlerInit
    /\ StoreIdle

UpdateSpec == UpdateStart /\ [][UpdateNext]_vars

\* =================================================== the request handler
\* defaultRequestHandler.OnSendMessage (a2asrv/handler.go).  The handler
\* reaches the queue manager, the queue and the agent executor through their
\* interfaces; what they return is the environment's choice, as with the
\* mocks of handler_test.go.  Every request is a goroutine of its own, and
\* one action is one interface call with the statements up to the next call
\* or the return.  After the return the results stay in hresult and herr
\* (position "done") until the goroutine serves its next request.

\* the variables the handler's actions leave alone: those of the other
\* components and of the executor
notHandlerVars == <<queuePartVars, managerVars, updateVars, storeVars, toWrite>>

\* what a call of one of the other methods sets
uVars == <<umethod, ures, uerr, ucalls>>
\* what OnSendMessage sets
sendVars == <<hpc, htaskID, hresult, herr, hcalls, hevent>>

ErrMissingTaskID == "message is missing TaskID"
\* the errors the interfaces return; Execute is handed ctx and may return
\* its error
GetOrCreateErrors == {"get or create failed"}
ExecuteErrors == {"execute failed", CtxErr}
ReadErrors == {"The number of ReadFunc exceeded the number of events: 0"}
\* the dynamic types an a2a.Event can have (%T), and those that are an
\* a2a.SendMessageResult
EventTypes ==
    {"*a2a.Message", "*a2a.Task", "*a2a.TaskStatusUpdateEvent",
     "*a2a.TaskArtifactUpdateEvent"}
SendMessageResults == {"*a2a.Message", "*a2a.Task"}
\* message.Message.TaskID: empty, or the task id of the test
MessageTaskIDs == {TaskIDOf(1), ""}
\* an interface call as hcalls records it
Call(name, err) == [call |-> name, err |-> err]

\* OnSendMessage without the test of the TaskID
SendMessageCallNoCheck(r, t) ==
    /\ hpc[r] \in {"idle", "done"}
    /\ htaskID' = [htaskID EXCEPT ![r] = t]
    /\ hcalls' = [hcalls EXCEPT ![r] = <<>>]
    /\ hevent' = [hevent EXCEPT ![r] = NoResult]
    /\ hpc' = [hpc EXCEPT ![r] = "getOrCreate"]
    /\ hresult' = [hresult EXCEPT ![r] = NoResult]
    /\ herr' = [herr EXCEPT ![r] = NoResult]
    /\ UNCHANGED <<uVars, notHandlerVars>>

\* OnSendMessage(ctx, message) up to the call of GetOrCreate
SendMessageCall(r, t) ==
    /\ hpc[r] \in {"idle", "done"}
    /\ htaskID' = [htaskID EXCEPT ![r] = t]
    /\ hcalls' = [hcalls EXCEPT ![r] = <<>>]
    /\ hevent' = [hevent EXCEPT ![r] = NoResult]
    /\ IF t = ""
          THEN /\ hpc' = [hpc EXCEPT ![r] = "done"]
               /\ hresult' = [hresult EXCEPT ![r] = Nil]
               /\ herr' = [herr EXCEPT ![r] = ErrMissingTaskID]
          ELSE /\ hpc' = [hpc EXCEPT ![r] = "getOrCreate"]
               /\ hresult' = [hresult EXCEPT ![r] = NoResult]
               /\ herr' = [herr EXCEPT ![r] = NoResult]
    /\ UNCHANGED <<uVars, notHandlerVars>>

\* SendGetOrCreate that returns the cause as it is
SendGetOrCreateUnwrapped(r, err) ==
    /\ hpc[r] = "getOrCreate"
    /\ hcalls' = [hcalls EXCEPT ![r] = Append(@, Call("GetOrCreate", err))]
    /\ IF err # Nil
          THEN /\ hpc' = [hpc EXCEPT ![r] = "done"]
               /\ hresult' = [hresult EXCEPT ![r] = Nil]
               /\ herr' = [herr EXCEPT ![r] = err]
          ELSE /\ hpc' = [hpc EXCEPT ![r] = "execute"]
               /\ UNCHANGED <<hresult, herr>>
    /\ UNCHANGED <<htaskID, hevent, uVars, notHandlerVars>>

\* h.queueManager.GetOrCreate(ctx, taskID) returns err (Nil: a queue)
SendGetOrCreate(r, err) ==
    /\ hpc[r] = "getOrCreate"
    /\ hcalls' = [hcalls EXCEPT ![r] = Append(@, Call("GetOrCreate", err))]
    /\ IF err # Nil
          THEN /\ hpc' = [hpc EXCEPT ![r] = "done"]
               /\ hresult' = [hresult EXCEPT ![r] = Nil]
               /\ herr' = [herr EXCEPT ![r] = "failed to retrieve queue: " \o err]
          ELSE /\ hpc' = [hpc EXCEPT ![r] = "execute"]
               /\ UNCHANGED <<hresult, herr>>
    /\ UNCHANGED <<htaskID, hevent, uVars, notHandlerVars>>

\* SendExecute that goes on to Read whatever Execute returned
SendExecuteIgnoreErr(r, err) ==
    /\ hpc[r] = "execute"
    /\ hcalls' = [hcalls EXCEPT ![r] = Append(@, Call("Execute", err))]
    /\ hpc' = [hpc EXCEPT ![r] = "read"]
    /\ UNCHANGED <<hresult, herr>>
    /\ UNCHANGED <<htaskID, hevent, uVars, notHandlerVars>>

\* h.executor.Execute(ctx, RequestContext{...}, queue) returns err
SendExecute(r, err) ==
    /\ hpc[r] = "execute"
    /\ hcalls' = [hcalls EXCEPT ![r] = Append(@, Call("Execute", err))]
    /\ IF err # Nil
          THEN /\ hpc' = [hpc EXCEPT ![r] = "done"]
               /\ hresult' = [hresult EXCEPT ![r] = Nil]
               /\ herr' = [herr EXCEPT ![r] = err]
          ELSE /\ hpc' = [hpc EXCEPT ![r] = "read"]
               /\ UNCHANGED <<hresult, herr>>
    /\ UNCHANGED <<htaskID, hevent, uVars, notHandlerVars>>

\* SendReadFails that reads again after a failure
SendReadFailsRetry(r, err) ==
    /\ hpc[r] = "read"
    /\ hcalls' = [hcalls EXCEPT ![r] = Append(@, Call("Read", err))]
    /\ UNCHANGED <<hpc, hresult, herr>>
    /\ UNCHANGED <<htaskID, hevent, uVars, notHandlerVars>>

\* queue.Read(ctx) returns err: no event
SendReadFails(r, err) ==
    /\ hpc[r] = "read"
    /\ hcalls' = [hcalls EXCEPT ![r] = Append(@, Call("Read", err))]
    /\ hpc' = [hpc EXCEPT ![r] = "done"]
    /\ hresult' = [hresult EXCEPT ![r] = Nil]
    /\ herr' = [herr EXCEPT ![r] = "failed to read event from queue: " \o err]
    /\ UNCHANGED <<htaskID, hevent, uVars, notHandlerVars>>

\* SendRead without the type assertion
SendReadNoAssert(r, ty) ==
    /\ hpc[r] = "read"
    /\ hcalls' = [hcalls EXCEPT ![r] = Append(@, Call("Read", Nil))]
    /\ hpc' = [hpc EXCEPT ![r] = "done"]
    /\ hevent' = [hevent EXCEPT ![r] = ty]
    /\ hresult' = [hresult EXCEPT ![r] = ty]
    /\ herr' = [herr EXCEPT ![r] = Nil]
    /\ UNCHANGED <<htaskID, uVars, notHandlerVars>>

\* queue.Read(ctx) returns an event of dynamic type ty, then the type
\* assertion and the return
SendRead(r, ty) ==
    /\ hpc[r] = "read"
    /\ hcalls' = [hcalls EXCEPT ![r] = Append(@, Call("Read", Nil))]
    /\ hpc' = [hpc EXCEPT ![r] = "done"]
    /\ hevent' = [hevent EXCEPT ![r] = ty]
    /\ IF ty \in SendMessageResults
          THEN /\ hresult' = [hresult EXCEPT ![r] = ty]
               /\ herr' = [herr EXCEPT ![r] = Nil]
          ELSE /\ hresult' = [hresult EXCEPT ![r] = Nil]
               /\ herr' = [herr EXCEPT ![r] = "unexpected event type: " \o ty]
    /\ UNCHANGED <<htaskID, uVars, notHandlerVars>>

ErrUnimplemented == "errUnimplemented"
\* the methods that return errUnimplemented, each with the value it returns
\* beside the error
UnimplementedResult ==
    [OnGetTask |-> "a2a.Task{}",
     OnCancelTask |-> "a2a.Task{}",
     OnGetTaskPushConfig |-> "a2a.TaskPushConfig{}",
     OnListTaskPushConfig |-> Nil,
     OnSetTaskPushConfig |-> "a2a.TaskPushConfig{}",
     OnDeleteTaskPushConfig |-> NoResult]
UnimplementedMethods == DOMAIN UnimplementedResult
\* the methods that return a sequence and no error
SequenceMethods == {"OnResubscribeToTask", "OnSendMessageStream"}

\* OnUnimplemented that returns a nil error
OnUnimplementedNoError(m) ==
    /\ umethod' = m
    /\ ures' = UnimplementedResult[m]
    /\ uerr' = Nil
    /\ ucalls' = <<>>
    /\ UNCHANGED <<sendVars, notHandlerVars>>

\* OnGetTask, OnCancelTask and the four On...TaskPushConfig methods
OnUnimplemented(m) ==
    /\ umethod' = m
    /\ ures' = UnimplementedResult[m]
    /\ uerr' = ErrUnimplemented
    /\ ucalls' = <<>>
    /\ UNCHANGED <<sendVars, notHandlerVars>>

\* OnResubscribeToTask and OnSendMessageStream: return nil
OnSequence(m) ==
    /\ umethod' = m
    /\ ures' = Nil
    /\ uerr' = NoResult
    /\ ucalls' = <<>>
    /\ UNCHANGED <<sendVars, notHandlerVars>>

HandlerNext ==
    \/ \E r \in Requests : \E t \in MessageTaskIDs : SendMessageCall(r, t)
    \/ \E r \in Requests : \E err \in GetOrCreateErrors \cup {Nil} : SendGetOrCreate(r, err)
    \/ \E r \in Requests : \E err \in ExecuteErrors \cup {Nil} : SendExecute(r, err)
    \/ \E r \in Requests : \E err \in ReadErrors : SendReadFails(r, err)
    \/ \E r \in Requests : \E ty \in EventTypes : SendRead(r, ty)
    \/ \E m \in UnimplementedMethods : OnUnimplemented(m)
    \/ \E m \in SequenceMethods : OnSequence(m)

\* the handler runs on its own, the other components stay as constructed
HandlerStart == Init /\ size = 1

HandlerSpec == HandlerStart /\ [][HandlerNext]_vars

\* ------------------------- the handler with the in-memory queue manager
\* NewHandler(executor): OnSendMessage with eventqueue.NewInMemoryManager()
\* and the queue of part 1 as the queue of the one TaskID in use.  A request
\* goroutine runs GetOrCreate (one step: the whole critical section under
\* m.mu), then Execute, in which the executor calls queue.Write on the same
\* goroutine, then queue.Read.  The Write and Read calls take the steps of
\* part 1, under the names of the writer and the reader with the request's
\* number; as a client of the manager the request has the client of that
\* number.  The capacity defaultMaxQueueSize is scaled down to `size`.

WriterOf(r) == <<"w", r[2]>>
ReaderOf(r) == <<"r", r[2]>>
ClientOf(r) == <<"m", r[2]>>

\* the Write calls the Executes under way have still to make
RECURSIVE WritesToCome(_)
WritesToCome(S) ==
    IF S = {} THEN 0
    ELSE LET r == CHOOSE x \in S : TRUE
         IN  (IF hpc[r] = "execute" THEN toWrite[r] ELSE 0) + WritesToCome(S \ {r})

\* OnSendMessage(ctx, message): the goroutine has left its previous call
ServeCall(r, t) ==
    /\ pc[WriterOf(r)] = "idle"
    /\ pc[ReaderOf(r)] = "idle"
    /\ SendMessageCall(r, t)

\* ServeGetOrCreate that makes a new queue for every request
ServeGetOrCreateFresh(r, k) ==
    /\ hpc[r] = "getOrCreate"
    /\ mu = NoProc
    /\ (nextEvent - 1) + WritesToCome(Requests) + k <= MaxWrites
    /\ nextQueue <= MaxQueues
    /\ queues' = [queues EXCEPT ![htaskID[r]] = nextQueue]
    /\ nextQueue' = nextQueue + 1
    /\ queueTask' = [queueTask EXCEPT ![nextQueue] = htaskID[r]]
    /\ handle' = [handle EXCEPT ![ClientOf(r)] = nextQueue]
    /\ merr' = [merr EXCEPT ![ClientOf(r)] = Nil]
    /\ hcalls' = [hcalls EXCEPT ![r] = Append(@, Call("GetOrCreate", Nil))]
    /\ hpc' = [hpc EXCEPT ![r] = "execute"]
    /\ toWrite' = [toWrite EXCEPT ![r] = k]
    /\ UNCHANGED <<mu, queueClosed, mpc, mop, mtaskId, mok, destroyed, htaskID, hresult,
                   herr, hevent, uVars, queuePartVars, updateVars, storeVars>>

\* queue, err := h.queueManager.GetOrCreate(ctx, taskID) with the in-memory
\* manager (err is nil), and the call of Execute; k: the number of events
\* this Execute is going to write
ServeGetOrCreate(r, k) ==
    /\ hpc[r] = "getOrCreate"
    /\ mu = NoProc
    /\ (nextEvent - 1) + WritesToCome(Requests) + k <= MaxWrites
    /\ IF queues[htaskID[r]] = NoQueue
          THEN /\ nextQueue <= MaxQueues
               /\ queues' = [queues EXCEPT ![htaskID[r]] = nextQueue]
               /\ nextQueue' = nextQueue + 1
               /\ queueTask' = [queueTask EXCEPT ![nextQueue] = htaskID[r]]
          ELSE UNCHANGED <<queues, nextQueue, queueTask>>
    /\ handle' = [handle EXCEPT ![ClientOf(r)] = queues'[htaskID[r]]]
    /\ merr' = [merr EXCEPT ![ClientOf(r)] = Nil]
    /\ hcalls' = [hcalls EXCEPT ![r] = Append(@, Call("GetOrCreate", Nil))]
    /\ hpc' = [hpc EXCEPT ![r] = "execute"]
    /\ toWrite' = [toWrite EXCEPT ![r] = k]
    /\ UNCHANGED <<mu, queueClosed, mpc, mop, mtaskId, mok, destroyed, htaskID, hresult,
                   herr, hevent, uVars, queuePartVars, updateVars, storeVars>>

\* inside Execute: the executor calls queue.Write(ctx, event) with its next event
ExecWriteCall(r) ==
    /\ hpc[r] = "execute"
    /\ toWrite[r] > 0
    /\ pc[WriterOf(r)] = "idle"
    /\ handle[ClientOf(r)] = LiveQueue
    /\ toWrite' = [toWrite EXCEPT ![r] = @ - 1]
    /\ pc' = [pc EXCEPT ![WriterOf(r)] = "acquire"]
    /\ ctxDone' = [ctxDone EXCEPT ![WriterOf(r)] = FALSE]
    /\ arg' = [arg EXCEPT ![WriterOf(r)] = nextEvent]
    /\ nextEvent' = nextEvent + 1
    /\ afterClose' = [afterClose EXCEPT ![WriterOf(r)] = closeReturned]
    /\ canceledAtCall' = [canceledAtCall EXCEPT ![WriterOf(r)] = FALSE]
    /\ UNCHANGED <<size, events, eventsClosed, tokens, closed, closeChanClosed, closeMu,
                   result, got, panicked, accepted, delivered, closeReturned,
                   managerVars, updateVars, storeVars, sendVars, uVars>>

\* inside Execute: one step of the Write under way
ExecWriteStep(r) ==
    /\ hpc[r] = "execute"
    /\ WriterStep(WriterOf(r))

\* Execute returns err between two Writes; it returns nil when it has
\* written all its events
ExecReturn(r, err) ==
    /\ pc[WriterOf(r)] = "idle"
    /\ err = Nil => toWrite[r] = 0
    /\ SendExecute(r, err)

\* event, err := queue.Read(ctx): the call, its select, and what the handler
\* does with the result; then the Read's frame is left
ServeReadCall(r) ==
    /\ hpc[r] = "read"
    /\ handle[ClientOf(r)] = LiveQueue
    /\ ReadCall(ReaderOf(r), FALSE)
ServeReadSelect(r) ==
    /\ hpc[r] = "read"
    /\ ReadSelect(ReaderOf(r))
ServeReadOk(r, ty) ==
    /\ pc[ReaderOf(r)] = "return"
    /\ result[ReaderOf(r)] = Nil
    /\ SendRead(r, ty)
ServeReadErr(r) ==
    /\ pc[ReaderOf(r)] = "return"
    /\ result[ReaderOf(r)] # Nil
    /\ SendReadFails(r, result[ReaderOf(r)])
ServeReadReturn(r) ==
    /\ hpc[r] = "done"
    /\ ReadReturn(ReaderOf(r))

\* the request's context is canceled while a Write or the Read waits on it
ServeCancel(r) ==
    \/ hpc[r] = "execute" /\ Cancel(WriterOf(r))
    \/ hpc[r] = "read" /\ Cancel(ReaderOf(r))

\* the dynamic types of the events the executors write: a status update on
\* the way and a Message as the result
ExecEventTypes == {"*a2a.TaskStatusUpdateEvent", "*a2a.Message"}

\* the steps of a request after the call that do not depend on the executor
\* and are not the handling of an error
RequestStep(r) ==
    \/ ExecWriteCall(r)
    \/ ExecWriteStep(r)
    \/ ServeReadCall(r)
    \/ ServeReadSelect(r)
    \/ \E ty \in ExecEventTypes : ServeReadOk(r, ty)
    \/ ServeReadReturn(r)

\* any executor: it writes any number of events, returns nil or an error,
\* and the context may be canceled
ServeNext ==
    \/ \E r \in Requests : \E t \in MessageTaskIDs : ServeCall(r, t)
    \/ \E r \in Requests : \E k \in 0..MaxWrites : ServeGetOrCreate(r, k)
    \/ \E r \in Requests : RequestStep(r)
    \/ \E r \in Requests : ServeReadErr(r)
    \/ \E r \in Requests : \E err \in ExecuteErrors \cup {Nil} : ExecReturn(r, err)
    \/ \E r \in Requests : ServeCancel(r)

ServeSpec == Init /\ [][ServeNext]_vars

\* the executors that write k >= 1 events and return nil, with contexts
\* that are never canceled
SyncRequest(r) ==
    \/ \E k \in 1..MaxWrites : ServeGetOrCreate(r, k)
    \/ RequestStep(r)
    \/ ExecReturn(r, Nil)

SyncNext ==
    \/ \E r \in Requests : \E t \in MessageTaskIDs : ServeCall(r, t)
    \/ \E r \in Requests : SyncRequest(r)

\* every request goroutine that can take a step is scheduled
SyncFairness == \A r \in Requests : WF_vars(SyncRequest(r))

SyncSpec == Init /\ [][SyncNext]_vars /\ SyncFairness

\* ======================================================= the task store
\* taskstore.Mem (Save, Get, deepCopy) with a caller that builds a Task,
\* saves it, gets Tasks back and writes to the Task objects it has a
\* pointer to.  An a2a.Task object is a cell of heap; Save and Get are
\* atomic (s.mu), and deepCopy allocates a new cell.

\* the variables the task store's actions leave alone
notStoreVars == <<queuePartVars, managerVars, updateVars, handlerVars>>

ErrTaskNotFound == "ErrTaskNotFound"
ErrGobType == "gob: type not registered for interface"

\* the elements of a slice, nil or not
Elems(slice) == IF slice = NilSlice THEN <<>> ELSE slice[1]
\* two Task values with the same content: the same fields, Metadata and
\* Artifacts elements (a nil slice and an empty slice have the same elements)
SameTask(a, b) ==
    /\ a.ID = b.ID
    /\ a.ContextID = b.ContextID
    /\ Elems(a.Artifacts) = Elems(b.Artifacts)
    /\ a.Metadata = b.Metadata

\* enc.Encode(*task) fails on an interface value whose type is not
\* registered with gob (gob.Register in the test)
gobEncodable(v) ==
    \/ v.Metadata = NilMetadata
    \/ \A k \in DOMAIN v.Metadata[1] : v.Metadata[1][k] # "forbiddenType{}"
\* what dec.Decode yields from the encoding of v: gob does not transmit a
\* slice without elements, so the field stays nil in the fresh a2a.Task{};
\* a map that is not nil is transmitted even when empty
gobRoundTrip(v) == [v EXCEPT !.Artifacts = IF Elems(@) = <<>> THEN NilSlice ELSE @]
\* deepCopy(task): the error and the value of the new object
deepCopy(v) ==
    IF gobEncodable(v)
       THEN [err |-> Nil, task |-> gobRoundTrip(v)]
       ELSE [err |-> ErrGobType, task |-> v]

\* Save that stores the caller's pointer
SaveNoCopy(ref) ==
    /\ ref \in held
    /\ Len(heap) < MaxObjects
    /\ sop' = "Save"
    /\ sid' = heap[ref].ID
    /\ sgot' = NilRef
    /\ serr' = Nil
    /\ tasks' = [tasks EXCEPT ![heap[ref].ID] = ref]
    /\ snapshot' = [snapshot EXCEPT ![heap[ref].ID] = <<heap[ref]>>]
    /\ UNCHANGED <<heap, held, touched, nMutate, notStoreVars>>

\* s.Save(ctx, task) with task = ref
Save(ref) ==
    /\ ref \in held
    /\ Len(heap) < MaxObjects
    /\ sop' = "Save"
    /\ sid' = heap[ref].ID
    /\ sgot' = NilRef
    /\ LET copy == deepCopy(heap[ref]) IN
          /\ serr' = copy.err
          /\ IF copy.err # Nil
                THEN UNCHANGED <<heap, tasks, snapshot>>
                ELSE /\ heap' = Append(heap, copy.task)
                     /\ tasks' = [tasks EXCEPT ![heap[ref].ID] = Len(heap) + 1]
                     /\ snapshot' = [snapshot EXCEPT ![heap[ref].ID] = <<heap[ref]>>]
    /\ UNCHANGED <<held, touched, nMutate, notStoreVars>>

\* Get that returns no error for a TaskID without an entry
GetMissingOk(taskId) ==
    /\ Len(heap) < MaxObjects
    /\ sop' = "Get"
    /\ sid' = taskId
    /\ IF tasks[taskId] = NilRef
          THEN /\ sgot' = NilRef
               /\ serr' = Nil
               /\ UNCHANGED <<heap, held>>
          ELSE LET copy == deepCopy(heap[tasks[taskId]]) IN
                  /\ serr' = copy.err
                  /\ IF copy.err # Nil
                        THEN /\ sgot' = NilRef
                             /\ UNCHANGED <<heap, held>>
                        ELSE /\ heap' = Append(heap, copy.task)
                             /\ sgot' = Len(heap) + 1
                             /\ held' = held \cup {Len(heap) + 1}
    /\ UNCHANGED <<tasks, snapshot, touched, nMutate, notStoreVars>>

\* s.Get(ctx, taskId)
Get(taskId) ==
    /\ Len(heap) < MaxObjects
    /\ sop' = "Get"
    /\ sid' = taskId
    /\ IF tasks[taskId] = NilRef
          THEN /\ sgot' = NilRef
               /\ serr' = ErrTaskNotFound
               /\ UNCHANGED <<heap, held>>
          ELSE LET copy == deepCopy(heap[tasks[taskId]]) IN
                  /\ serr' = copy.err
                  /\ IF copy.err # Nil
                        THEN /\ sgot' = NilRef
                             /\ UNCHANGED <<heap, held>>
                        ELSE /\ heap' = Append(heap, copy.task)
                             /\ sgot' = Len(heap) + 1
                             /\ held' = held \cup {Len(heap) + 1}
    /\ UNCHANGED <<tasks, snapshot, touched, nMutate, notStoreVars>>

\* the values one assignment to a field of the Task v can give it
Mutations(v) ==
    ({[v EXCEPT !.ID = x] : x \in StoreIDs}
        \cup {[v EXCEPT !.ContextID = x] : x \in StoreContextIDs}
        \cup {[v EXCEPT !.Artifacts = x] : x \in StoreArtifacts}
        \cup {[v EXCEPT !.Metadata = x] : x \in StoreMetadata})
    \ {v}

\* the caller writes to a Task it has a pointer to: the Task it saved, or a
\* Task that Get returned
Mutate(ref, v) ==
    /\ ref \in held
    /\ nMutate < MaxMutations
    /\ nMutate' = nMutate + 1
    /\ heap' = [heap EXCEPT ![ref] = v]
    /\ touched' = touched \cup {ref}
    /\ sop' = "Mutate"
    /\ UNCHANGED <<tasks, held, sid, sgot, serr, snapshot, notStoreVars>>

StoreNext ==
    \/ \E ref \in 1..Len(heap) : Save(ref)
    \/ \E taskId \in GetIDs : Get(taskId)
    \/ \E ref \in 1..Len(heap) : \E v \in Mutations(heap[ref]) : Mutate(ref, v)

\* the task store runs on its own, from NewMem()
StoreStart ==
    /\ QueueInit /\ size = 1
    /\ ManagerInit
    /\ UpdateIdle
    /\ HandlerInit
    /\ StoreInit

StoreSpec == StoreStart /\ [][StoreNext]_vars

\* ================================================================ claims
\* e occurs in the sequence s
InSeq(e, s) == \E i \in 1..Len(s) : s[i] = e
\* s is an initial part of t
IsPrefix(s, t) == Len(s) <= Len(t) /\ \A i \in 1..Len(s) : s[i] = t[i]
\* the call of p has fixed its result and is about to return
Decided(p) == pc[p] \in {"release", "return", "unlock"}

\* C1: once a Close call has returned, every Write that starts afterwards
\* returns ErrQueueClosed or the context's error and its event never enters
\* the buffer.
C1_NoWriteAfterClose ==
    \A w \in Writers :
        afterClose[w] =>
            /\ result[w] \in {NoResult, ErrQueueClosed, CtxErr}
            /\ ~InSeq(arg[w], accepted)
            /\ ~InSeq(arg[w], events)

\* a Write that started after a Close had returned is about to return
\* ErrQueueClosed
C1_Witness ==
    \E w \in Writers :
        /\ afterClose[w]
        /\ pc[w] = "release"
        /\ result[w] = ErrQueueClosed
        /\ closeReturned

\* C2: with the buffer full, a writer blocked on the enqueue with the permit
\* and writers waiting for the permit, a Close lets every one of them return
\* ErrQueueClosed without enqueuing, and Close itself can always go on: while
\* it waits for the permit, the permit's holder can take a step.
C2_BlockedWritersFail ==
    \A w \in Writers :
        /\ pc[w] \in {"acquire", "select"}
        /\ closeChanClosed
        /\ Len(events) = size
        /\ ~ctxDone[w]
        /\ Decided(w)'
        => /\ result'[w] = ErrQueueClosed
           /\ events' = events
           /\ accepted' = accepted

C2_CloseCanProceed ==
    \A c \in Closers :
        pc[c] = "acquire" =>
            \/ ENABLED CloseAcquire(c)
            \/ \E w \in Writers :
                  pc[w] \in {"select", "release"} /\ ENABLED WriterStep(w)

C2_BlockedWritesThenClose ==
    [][C2_BlockedWritersFail]_vars /\ []C2_CloseCanProceed

\* the buffer is full and was never read, Close has sent its signal and
\* waits for the permit, the writer that held the permit in its enqueue is
\* about to return ErrQueueClosed, another writer still waits for the permit
C2_Witness ==
    /\ Len(events) = size
    /\ delivered = <<>>
    /\ closeChanClosed /\ ~closed
    /\ \E c \in Closers : pc[c] = "acquire"
    /\ \E w1, w2 \in Writers :
          /\ pc[w1] = "release" /\ result[w1] = ErrQueueClosed /\ ~ctxDone[w1]
          /\ pc[w2] = "acquire" /\ ~ctxDone[w2]

\* C3: after Close, Reads return the buffered events in write order and a
\* Read fails with ErrQueueClosed only once the buffer is exhausted: when it
\* fails, every accepted event has been returned, in the order of the Writes.
C3_DrainAfterClose ==
    /\ eventsClosed => delivered \o events = accepted
    /\ \A r \in Readers :
          /\ pc[r] = "return" /\ result[r] = ErrQueueClosed
             => eventsClosed /\ events = <<>> /\ delivered = accepted
          /\ pc[r] = "return" /\ result[r] = Nil
             => InSeq(got[r], delivered) /\ IsPrefix(delivered, accepted)
          /\ pc[r] = "select" /\ eventsClosed => ENABLED ReadSelect(r)

\* two events were written, the queue was closed, both were read in write
\* order and the third Read is about to return ErrQueueClosed
C3_Witness ==
    /\ size = 2
    /\ Len(accepted) = 2
    /\ delivered = accepted
    /\ \E r \in Readers : pc[r] = "return" /\ result[r] = ErrQueueClosed


\* C4: a Write on a queue that is already closed never waits for buffer
\* space and fails: it returns ErrQueueClosed (the context's error only when
\* its context is canceled), and while it waits for the permit the holder of
\* the permit is about to release it.
C4_WriteOnClosedFails ==
    \A w \in Writers :
        afterClose[w] =>
            /\ pc[w] # "select"
            /\ Decided(w) =>
                  \/ result[w] = ErrQueueClosed
                  \/ result[w] = CtxErr /\ ctxDone[w]
            /\ pc[w] = "acquire" =>
                  \/ ENABLED WriteAcquire(w)
                  \/ \E p \in Writers : pc[p] = "release" /\ ENABLED WriteReturn(p)
                  \/ \E c \in Closers : pc[c] = "release" /\ ENABLED CloseReturn(c)

\* a Write with a live context on a closed queue whose buffer is still full
\* is about to return ErrQueueClosed
C4_Witness ==
    \E w \in Writers :
        /\ afterClose[w] /\ ~ctxDone[w]
        /\ pc[w] = "release" /\ result[w] = ErrQueueClosed
        /\ Len(events) = size

\* C5: Close is idempotent: no channel is closed twice, and a Close call on
\* a closed queue returns nil, changes nothing of the queue (buffered events
\* stay) and waits at most for another Close call that is about to return.
C5_LaterCloseNoEffect ==
    \A c \in Closers :
        closed /\ pc[c] \in {"lock", "unlock"} /\ pc'[c] # pc[c]
        => /\ UNCHANGED <<size, events, eventsClosed, tokens, closed,
                          closeChanClosed, panicked, accepted, delivered>>
           /\ pc[c] = "lock" => pc'[c] = "unlock" /\ result'[c] = Nil

C5_LaterCloseReturns ==
    /\ ~panicked
    /\ \A c \in Closers :
          /\ pc[c] = "unlock" => result[c] = Nil /\ closed
          /\ pc[c] = "lock" /\ closed =>
                \/ ENABLED CloseLock(c)
                \/ \E h \in Closers : closeMu = h /\ ENABLED CloseReturn(h)

C5_CloseIdempotent ==
    [][C5_LaterCloseNoEffect]_vars /\ []C5_LaterCloseReturns

\* after a Close has returned, another Close call is about to return nil
\* while an event is still buffered
C5_Witness ==
    /\ closeReturned
    /\ events # <<>>
    /\ \E c \in Closers : pc[c] = "unlock" /\ result[c] = Nil

\* C6: the events returned by Reads, in dequeue order, are an initial part
\* of the events accepted by Writes, in enqueue order.
C6_WriteOrder == IsPrefix(delivered, accepted)

\* three events were accepted, two of them read; the Writes were accepted
\* in another order than they were called
C6_Witness ==
    /\ Len(accepted) = 3
    /\ Len(delivered) = 2
    /\ delivered[1] > delivered[2]


\* C7: a Write in its enqueue on an open queue, with a live context, returns
\* only by enqueuing its event, which takes a free slot: it does not return
\* while the buffer stays full; and once the buffer has a free slot the
\* Write leaves its enqueue.
C7_ReturnsOnlyByEnqueue ==
    \A w \in Writers :
        pc[w] = "select" /\ pc'[w] # "select" /\ ~closeChanClosed /\ ~ctxDone[w]
        => /\ Len(events) < size
           /\ result'[w] = Nil
           /\ events' = Append(events, arg[w])

C7_BlockedWriteCompletes ==
    \A w \in Writers :
        (pc[w] = "select" /\ Len(events) < size) ~> (pc[w] # "select")

C7_WriteBlocksWhileFull ==
    [][C7_ReturnsOnlyByEnqueue]_vars /\ C7_BlockedWriteCompletes

\* capacity 1: e1 was written and read, the second Write has enqueued e2 and
\* is about to return nil
C7_Witness ==
    /\ size = 1
    /\ Len(accepted) = 2
    /\ delivered = <<accepted[1]>>
    /\ events = <<accepted[2]>>
    /\ ~closeChanClosed
    /\ \E w \in Writers :
          pc[w] = "release" /\ result[w] = Nil /\ arg[w] = accepted[2]

\* C8: a Read on an open queue, with a live context, returns only by taking
\* the oldest buffered event: it does not return while the buffer is empty;
\* and once an event is buffered while a Read waits, an event is returned
\* to a waiting Read (unless that Read's context is canceled first).
C8_ReturnsOnlyByDequeue ==
    \A r \in Readers :
        pc[r] = "select" /\ pc'[r] # "select" /\ ~eventsClosed /\ ~ctxDone[r]
        => /\ events # <<>>
           /\ result'[r] = Nil
           /\ got'[r] = Head(events)
           /\ events' = Tail(events)

C8_BlockedReadCompletes ==
    \A r \in Readers : \A n \in 0..MaxWrites :
        (pc[r] = "select" /\ ~ctxDone[r] /\ events # <<>> /\ Len(delivered) = n)
        ~> (Len(delivered) > n \/ ctxDone[r])

C8_ReadBlocksWhileEmpty ==
    [][C8_ReturnsOnlyByDequeue]_vars /\ C8_BlockedReadCompletes

\* a Read on the open queue is about to return the only event written
C8_Witness ==
    /\ ~closeChanClosed
    /\ Len(accepted) = 1
    /\ \E r \in Readers :
          /\ pc[r] = "return" /\ result[r] = Nil /\ ~ctxDone[r]
          /\ got[r] = accepted[1]


\* the goroutines that hold the admission permit
Holders ==
    {w \in Writers : pc[w] \in {"select", "release"}}
        \cup {c \in Closers : pc[c] = "release"}

\* C9: a blocked Write or Read whose context is canceled returns the
\* context's error: a call that returns it has enqueued or removed nothing,
\* a canceled call with no other case ready returns it and leaves the buffer
\* alone, every canceled call leaves its blocking operation, and the permit
\* is held only by calls that are still inside (so it is released on return).
C9_CanceledLeavesNoTrace ==
    /\ \A w \in Writers :
          Decided(w) /\ result[w] = CtxErr
          => ctxDone[w] /\ ~InSeq(arg[w], accepted) /\ ~InSeq(arg[w], events)
    /\ \A r \in Readers :
          pc[r] = "return" /\ result[r] = CtxErr
          => ctxDone[r] /\ got[r] = NoEvent
    /\ tokens = Cardinality(Holders)

C9_BlockedCanceledStep ==
    /\ \A w \in Writers :
          /\ pc[w] = "select" /\ pc'[w] # "select"
             /\ ctxDone[w] /\ Len(events) = size /\ ~closeChanClosed
             => result'[w] = CtxErr /\ events' = events /\ accepted' = accepted
          /\ pc[w] = "acquire" /\ pc'[w] # "acquire"
             /\ ctxDone[w] /\ ~CanAcquire
             => result'[w] = CtxErr /\ pc'[w] = "return" /\ tokens' = tokens
    /\ \A r \in Readers :
          pc[r] = "select" /\ pc'[r] # "select"
          /\ ctxDone[r] /\ events = <<>> /\ ~eventsClosed
          => result'[r] = CtxErr /\ events' = events /\ delivered' = delivered

C9_CanceledReturns ==
    /\ \A p \in Writers \cup Readers :
          (ctxDone[p] /\ pc[p] \in {"acquire", "select"})
          ~> (pc[p] \notin {"acquire", "select"})
    /\ \A w \in Writers : (pc[w] = "release") ~> (pc[w] = "idle")

C9_CancelUnblocks ==
    /\ []C9_CanceledLeavesNoTrace
    /\ [][C9_BlockedCanceledStep]_vars
    /\ C9_CanceledReturns

\* a Write blocked on the full buffer, canceled while it held the permit,
\* is about to return the context's error, and so is a canceled Read
C9_Witness ==
    /\ Len(events) = size
    /\ ~closeChanClosed
    /\ \E w \in Writers :
          /\ pc[w] = "release" /\ result[w] = CtxErr
          /\ ~canceledAtCall[w]
    /\ \E r \in Readers : pc[r] = "return" /\ result[r] = CtxErr

\* C10 as stated: a Write called with an already canceled context returns
\* context.Canceled and enqueues nothing, whatever the buffer and the permit.
C10_CanceledWriteAlwaysFails ==
    \A w \in Writers :
        canceledAtCall[w] /\ Decided(w)
        => result[w] = CtxErr /\ ~InSeq(arg[w], accepted)

\* C10 as amended: a Write called with an already canceled context never
\* blocks; it returns context.Canceled and enqueues nothing when the buffer
\* is full at its enqueue and Close has not begun, whether or not the permit
\* is free; with a free slot it may enqueue its event and return nil, and
\* once Close has begun it may return ErrQueueClosed.
C10_CanceledWriteStep ==
    \A w \in Writers :
        canceledAtCall[w] /\ pc[w] \in {"acquire", "select"} /\ Decided(w)'
        => \/ /\ result'[w] = CtxErr
              /\ events' = events /\ accepted' = accepted
           \/ /\ result'[w] = ErrQueueClosed /\ closeChanClosed
              /\ events' = events /\ accepted' = accepted
           \/ /\ result'[w] = Nil /\ Len(events) < size
              /\ events' = Append(events, arg[w])

C10_CanceledWriteNeverBlocks ==
    \A w \in Writers :
        canceledAtCall[w] /\ pc[w] \in {"acquire", "select"}
        => ENABLED WriterStep(w)

C10_CanceledWrite ==
    [][C10_CanceledWriteStep]_vars /\ []C10_CanceledWriteNeverBlocks

\* a Write called with a canceled context took the free permit, found the
\* buffer full and is about to return context.Canceled
C10_Witness ==
    /\ Len(events) = size
    /\ ~closeChanClosed
    /\ \E w \in Writers :
          canceledAtCall[w] /\ pc[w] = "release" /\ result[w] = CtxErr


\* ------------------------------------------------------------------- C11
\* the queue instances created so far
Created == 1..(nextQueue - 1)

\* C11: concurrent GetOrCreate calls for one task id all return the same
\* queue instance and create one queue: every instance that was created and
\* not destroyed is the one registered for its task id, so two clients that
\* hold live queues of one task hold the same instance; and as long as no
\* queue was destroyed, the number of queues created is the number of task
\* ids registered.
C11_OneQueuePerTask ==
    /\ \A q \in Created : q \notin destroyed => queues[queueTask[q]] = q
    /\ \A c, d \in Clients :
          (/\ handle[c] # NoQueue /\ handle[d] # NoQueue
           /\ handle[c] \notin destroyed /\ handle[d] \notin destroyed
           /\ queueTask[handle[c]] = queueTask[handle[d]])
          => handle[c] = handle[d]
    /\ destroyed = {} =>
          Cardinality(Created) = Cardinality({t \in TaskIDs : queues[t] # NoQueue})

\* two clients called GetOrCreate for one task id that had no queue: both
\* got the same instance, the only one created
C11_Witness ==
    /\ \E c, d \in Clients :
          /\ c # d
          /\ handle[c] # NoQueue
          /\ handle[c] = handle[d]
          /\ merr[c] = Nil /\ merr[d] = Nil
    /\ destroyed = {}
    /\ Cardinality(Created) = 1

\* ------------------------------------------------------------------- C12
\* Destroy of a registered task id closes the queue and removes the entry
C12_DestroyClosesAndRemoves ==
    \A c \in Clients :
        (DestroyReturn(c) /\ queues[mtaskId[c]] # NoQueue)
        => /\ merr'[c] = Nil
           /\ queueClosed'[queues[mtaskId[c]]]
           /\ queues'[mtaskId[c]] = NoQueue

\* a Write through a handle to a destroyed queue fails with ErrQueueClosed
C12_WriteOnDestroyedFails ==
    \A c \in Clients :
        (HandleWrite(c) /\ handle[c] \in destroyed) => merr'[c] = ErrQueueClosed

\* GetOrCreate never returns a destroyed queue
C12_NewQueueAfterDestroy ==
    \A c \in Clients :
        GetOrCreateReturn(c) => (handle'[c] # NoQueue /\ handle'[c] \notin destroyed)

\* C12: Destroy on a registered task id closes the queue and removes it from
\* the registry; a Write through a handle obtained before fails with
\* ErrQueueClosed; the next GetOrCreate for the task id returns another
\* instance.
C12_DestroyExisting ==
    [][/\ C12_DestroyClosesAndRemoves
       /\ C12_WriteOnDestroyedFails
       /\ C12_NewQueueAfterDestroy]_vars

\* a client wrote to the destroyed queue it holds and got ErrQueueClosed, and
\* another client got a new queue for the same task id
C12_Witness ==
    \E c, d \in Clients :
        /\ handle[c] \in destroyed
        /\ merr[c] = ErrQueueClosed
        /\ handle[d] # NoQueue
        /\ handle[d] # handle[c]
        /\ queueTask[handle[d]] = queueTask[handle[c]]
        /\ queues[queueTask[handle[c]]] = handle[d]

\* ------------------------------------------------------------------- C13
\* C13: Destroy on a task id that has no registered queue returns the
\* not-found error that names the task id, and leaves the registry and every
\* queue as they were.
C13_DestroyNonExistent ==
    [][\A c \in Clients :
          (DestroyReturn(c) /\ queues[mtaskId[c]] = NoQueue)
          => /\ merr'[c] = ErrNotExist(mtaskId[c])
             /\ UNCHANGED <<queues, queueClosed, nextQueue, destroyed>>]_vars

\* a Destroy failed for a task id without a queue while an open queue is
\* registered for another task id
C13_Witness ==
    \E c \in Clients : \E t, u \in TaskIDs :
        /\ merr[c] = ErrNotExist(t)
        /\ queues[t] = NoQueue
        /\ queues[u] # NoQueue
        /\ ~queueClosed[queues[u]]


\* ------------------------------------------------------------------- C14
\* a Process call returned in this step
ProcessStep == nProcess' = nProcess + 1

\* C14: Process rejects every Task snapshot, status update and artifact
\* update whose TaskID or ContextID is not the managed Task's (an empty id
\* included): it returns an error, does not call the Saver and leaves the
\* managed Task as it was.
C14_RejectsMismatch ==
    [][(/\ ProcessStep
        /\ taskRef # NilRef
        /\ lastEvent'.kind \in {"Task", "TaskStatusUpdate", "TaskArtifactUpdate"}
        /\ ~lastEvent'.matches)
       => (/\ perr' \notin {Nil, NoResult}
           /\ saveCalls' = saveCalls
           /\ saved' = saved
           /\ taskRef' = taskRef
           /\ Task' = Task)]_vars

\* a status update with an empty ContextID was rejected; the Saver was not called
C14_Witness ==
    /\ lastEvent = EventInfo("TaskStatusUpdate", FALSE, NilRef)
    /\ perr = "context IDs don't match: ctx-1 != "
    /\ saveCalls = 0
    /\ Task = base

\* ------------------------------------------------------------------- C15
\* C15: when Saver.Save fails for a status update with matching ids, Process
\* returns the error and the managed Task has the Status, History and
\* Metadata it had before the call.
C15_FailedSaveLeavesTask ==
    [][(/\ ProcessStep
        /\ lastEvent'.kind = "TaskStatusUpdate"
        /\ lastEvent'.matches
        /\ perr' = ErrSaverFailed)
       => (/\ Task'.Status = Task.Status
           /\ Task'.History = Task.History
           /\ Task'.Metadata = Task.Metadata)]_vars

\* ------------------------------------------------------------------- C16
\* the status messages since base: that of base, then those of the status
\* updates that succeeded
StatusMessages == <<base.Status.Message>> \o [i \in 1..Len(applied) |-> applied[i].Message]
IsMessage(m) == m # NoMessage
\* the messages of the statuses that were superseded, in order
SupersededMessages ==
    SelectSeq(SubSeq(StatusMessages, 1, Len(StatusMessages) - 1), IsMessage)

\* C16: after status updates that all succeeded, History is the initial
\* History followed by the Message of every superseded Status that had one,
\* in order, and Status is the Status of the last event.
C16_StatusHistory ==
    (taskRef # NilRef /\ ~dirty)
    => /\ Task.History = base.History \o SupersededMessages
       /\ Task.Status = lastStatus
       /\ Task.Status.Message = StatusMessages[Len(StatusMessages)]

\* updates with a message each on a Task with empty History and no status
\* message: History holds all messages but the last, Status the last
C16_Witness ==
    /\ ~dirty
    /\ base.History = <<>>
    /\ base.Status.Message = NoMessage
    /\ Len(applied) = MaxEvents
    /\ \A i \in 1..Len(applied) : applied[i].Message = i
    /\ Task.History = [i \in 1..(MaxEvents - 1) |-> i]
    /\ Task.Status.Message = MaxEvents

\* ------------------------------------------------------------------- C17
\* a Metadata value as a map: the nil map has no keys
AsMap(md) == IF md = NilMetadata THEN <<>> ELSE md[1]
\* the status updates that succeeded and carried the key k
Carriers(k) == {i \in 1..Len(applied) : k \in DOMAIN AsMap(applied[i].Metadata)}
Latest(S) == CHOOSE i \in S : \A j \in S : j <= i
ExpectedKeys ==
    DOMAIN AsMap(base.Metadata)
        \cup UNION {DOMAIN AsMap(applied[i].Metadata) : i \in 1..Len(applied)}
ExpectedValue(k) ==
    IF Carriers(k) = {}
       THEN AsMap(base.Metadata)[k]
       ELSE AsMap(applied[Latest(Carriers(k))].Metadata)[k]

\* the Metadata is the key-wise union, each key with its latest value
C17_LastWriterWins ==
    (taskRef # NilRef /\ ~dirty)
    => /\ DOMAIN AsMap(Task.Metadata) = ExpectedKeys
       /\ \A k \in ExpectedKeys : AsMap(Task.Metadata)[k] = ExpectedValue(k)

\* a status update with nil Metadata leaves the Metadata as it was
C17_NilMetadataNoChange ==
    (/\ ProcessStep
     /\ lastEvent'.kind = "TaskStatusUpdate"
     /\ Len(applied') = Len(applied) + 1
     /\ applied'[Len(applied')].Metadata = NilMetadata)
    => Task'.Metadata = Task.Metadata

\* C17: after status updates that all succeeded, Metadata is the key-wise
\* union of the initial Metadata and the events' Metadata, each key with the
\* value of the latest event that carried it; an event with nil Metadata
\* changes nothing in it.
C17_MetadataMerge == []C17_LastWriterWins /\ [][C17_NilMetadataNoChange]_vars

\* {"foo": "bar2", "hello": "world"} and then {"foo": "bar"} were merged
C17_Witness ==
    /\ ~dirty
    /\ Len(applied) = 2
    /\ applied[1].Metadata = <<("foo" :> "bar2") @@ ("hello" :> "world")>>
    /\ applied[2].Metadata = <<("foo" :> "bar")>>
    /\ Task.Metadata = <<("foo" :> "bar") @@ ("hello" :> "world")>>

\* ------------------------------------------------------------------- C18
\* C18: Process of a Task snapshot with matching ids calls Saver.Save with
\* the snapshot; when Save succeeds the managed Task is that snapshot object,
\* when Save fails Process returns the Saver's error and the managed Task is
\* the object it was.
C18_SnapshotCommit ==
    [][(/\ ProcessStep
        /\ taskRef # NilRef
        /\ lastEvent'.kind = "Task"
        /\ lastEvent'.matches)
       => (/\ saveCalls' = saveCalls + 1
           /\ perr' \in {Nil, ErrSaverFailed}
           /\ perr' = Nil =>
                 /\ taskRef' = lastEvent'.ref
                 /\ saved' = <<[ref |-> lastEvent'.ref, task |-> Task']>>
           /\ perr' = ErrSaverFailed =>
                 /\ taskRef' = taskRef
                 /\ Task' = Task
                 /\ saved' = saved)]_vars

\* a snapshot in another object than the managed one was saved and became the
\* managed Task
C18_Witness ==
    /\ lastEvent.kind = "Task"
    /\ lastEvent.matches
    /\ perr = Nil
    /\ taskRef = lastEvent.ref
    /\ taskRef # 1
    /\ saved = <<[ref |-> taskRef, task |-> Task]>>
    /\ Task.Status.State = "completed"


\* ------------------------------------------------------------------- C19
\* C19: OnSendMessage with an empty TaskID returns the error "message is
\* missing TaskID" and no result, and it has called none of GetOrCreate,
\* Execute and Read.
C19_MissingTaskID ==
    \A r \in Requests :
       (htaskID[r] = "" /\ hpc[r] # "idle")
       => /\ hpc[r] = "done"
          /\ herr[r] = ErrMissingTaskID
          /\ hresult[r] = Nil
          /\ hcalls[r] = <<>>

\* a request with an empty TaskID has returned while another request, with a
\* TaskID, went through all three calls
C19_Witness ==
    \E r, o \in Requests :
       /\ htaskID[r] = ""
       /\ hpc[r] = "done"
       /\ herr[r] = ErrMissingTaskID
       /\ hcalls[r] = <<>>
       /\ hpc[o] = "done"
       /\ Len(hcalls[o]) = 3

\* ------------------------------------------------------------------- C20
\* the call of Execute by request r returned an error in this step
ExecuteFailed(r) ==
    /\ hpc[r] = "execute"
    /\ Len(hcalls'[r]) = Len(hcalls[r]) + 1
    /\ hcalls'[r][Len(hcalls'[r])].call = "Execute"
    /\ hcalls'[r][Len(hcalls'[r])].err # Nil

\* the step in which Execute fails is the step in which the request
\* returns, with Execute's own error
C20_ReturnsAtOnce ==
    \A r \in Requests :
       ExecuteFailed(r)
       => /\ hpc'[r] = "done"
          /\ herr'[r] = hcalls'[r][Len(hcalls'[r])].err
          /\ hresult'[r] = Nil

\* a request whose Execute failed made no call after it
C20_NoReadAfterFailure ==
    \A r \in Requests : \A i \in 1..Len(hcalls[r]) :
       (hcalls[r][i].call = "Execute" /\ hcalls[r][i].err # Nil)
       => /\ i = Len(hcalls[r])
          /\ \A j \in 1..Len(hcalls[r]) : hcalls[r][j].call # "Read"

\* C20: when Execute returns an error, OnSendMessage returns that error at
\* once and does not Read from the queue.
C20_ExecuteFailure == [][C20_ReturnsAtOnce]_vars /\ []C20_NoReadAfterFailure

\* Execute failed for one request, which returned its error after two calls;
\* another request, whose Execute succeeded, has read an event
C20_Witness ==
    \E r, o \in Requests :
       /\ hpc[r] = "done"
       /\ herr[r] = "execute failed"
       /\ hcalls[r] = <<Call("GetOrCreate", Nil), Call("Execute", "execute failed")>>
       /\ hpc[o] = "done"
       /\ herr[o] = Nil
       /\ hresult[o] = "*a2a.Message"


\* ------------------------------------------------------------------- C21
\* C21: when GetOrCreate fails, OnSendMessage returns the error "failed to
\* retrieve queue: <cause>" with the cause GetOrCreate returned and no
\* result, and the executor is not invoked.
C21_GetOrCreateFailure ==
    \A r \in Requests : \A i \in 1..Len(hcalls[r]) :
       (hcalls[r][i].call = "GetOrCreate" /\ hcalls[r][i].err # Nil)
       => /\ hpc[r] = "done"
          /\ herr[r] = "failed to retrieve queue: " \o hcalls[r][i].err
          /\ hresult[r] = Nil
          /\ hcalls[r] = <<Call("GetOrCreate", hcalls[r][i].err)>>

\* GetOrCreate failed for a request with a TaskID, which returned after that
\* one call
C21_Witness ==
    \E r \in Requests :
       /\ htaskID[r] \in TaskIDs
       /\ hpc[r] = "done"
       /\ herr[r] = "failed to retrieve queue: get or create failed"
       /\ hcalls[r] = <<Call("GetOrCreate", "get or create failed")>>

\* ------------------------------------------------------------------- C22
\* the positions of the Read calls in the call log of request r
Reads(r) == {i \in 1..Len(hcalls[r]) : hcalls[r][i].call = "Read"}
\* Execute returned nil for request r
Executed(r) == \E i \in 1..Len(hcalls[r]) : hcalls[r][i] = Call("Execute", Nil)

\* C22: a request Reads at most once, and only after Execute returned nil;
\* a request that returned after such an Execute has Read exactly once, as
\* its last call; when that Read failed the request returned "failed to
\* read event from queue: <cause>" and no result.
C22_OneRead ==
    \A r \in Requests :
       /\ Cardinality(Reads(r)) <= 1
       /\ Reads(r) # {} => Executed(r)
       /\ (hpc[r] = "done" /\ Executed(r))
          => /\ Reads(r) = {Len(hcalls[r])}
             /\ hcalls[r][Len(hcalls[r])].err # Nil
                => /\ herr[r] = "failed to read event from queue: "
                                   \o hcalls[r][Len(hcalls[r])].err
                   /\ hresult[r] = Nil
                   /\ hevent[r] = NoResult

\* a request's only Read failed and the request returned the wrapped error
C22_Witness ==
    \E r \in Requests :
       /\ hpc[r] = "done"
       /\ Len(hcalls[r]) = 3
       /\ hcalls[r][2] = Call("Execute", Nil)
       /\ hcalls[r][3].call = "Read"
       /\ hcalls[r][3].err \in ReadErrors
       /\ herr[r] = "failed to read event from queue: " \o hcalls[r][3].err

\* ------------------------------------------------------------------- C23
\* C23: a request that read an event returns it as the result, with no
\* error, exactly when it is a Message or a Task; for a TaskStatusUpdateEvent
\* or a TaskArtifactUpdateEvent it returns no result and the error
\* "unexpected event type: " followed by the event's type.
C23_ResultVariant ==
    \A r \in Requests :
       (hpc[r] = "done" /\ hevent[r] # NoResult)
       => /\ hevent[r] \in {"*a2a.Message", "*a2a.Task"}
             => (hresult[r] = hevent[r] /\ herr[r] = Nil)
          /\ hevent[r] \in {"*a2a.TaskStatusUpdateEvent", "*a2a.TaskArtifactUpdateEvent"}
             => (hresult[r] = Nil /\ herr[r] = "unexpected event type: " \o hevent[r])
          /\ hresult[r] # Nil <=> hevent[r] \in {"*a2a.Message", "*a2a.Task"}

\* one request read a status update and failed, another read a Task
\* snapshot and returned it
C23_Witness ==
    \E r, o \in Requests :
       /\ hpc[r] = "done"
       /\ hevent[r] = "*a2a.TaskStatusUpdateEvent"
       /\ herr[r] = "unexpected event type: *a2a.TaskStatusUpdateEvent"
       /\ hresult[r] = Nil
       /\ hpc[o] = "done"
       /\ hevent[o] = "*a2a.Task"
       /\ hresult[o] = "*a2a.Task"
       /\ herr[o] = Nil


\* ------------------------------------------------------------------- C24
\* C24: Get of a TaskID that was saved returns, without error, a new Task
\* object whose content is that of the Task most recently saved under the
\* TaskID as it was when Save was called, whatever the caller has written
\* since to the object it saved or to objects earlier Gets returned.
C24_IndependentSnapshot ==
    (sop = "Get" /\ snapshot[sid] # <<>>)
    => /\ serr = Nil
       /\ sgot # NilRef
       /\ sgot \notin touched
       /\ sgot # tasks[sid]
       /\ SameTask(heap[sgot], snapshot[sid][1])

\* the caller wrote to the Task after it saved it and to the Task an earlier
\* Get returned; the Get that just returned still yields the saved content
C24_Witness ==
    /\ sop = "Get"
    /\ serr = Nil
    /\ heap[1].ID = sid
    /\ 1 \in touched
    /\ ~SameTask(heap[1], snapshot[sid][1])
    /\ \E r \in held \ {1, sgot} :
          /\ r \in touched
          /\ heap[r].ID = sid
          /\ ~SameTask(heap[r], snapshot[sid][1])
    /\ SameTask(heap[sgot], snapshot[sid][1])
    /\ snapshot[sid][1].Artifacts = <<<<"foo">>>>

\* ------------------------------------------------------------------- C25
\* C25: Get of a TaskID under which no Task was saved returns
\* ErrTaskNotFound and no Task, whatever was saved under other TaskIDs.
C25_TaskNotFound ==
    (sop = "Get" /\ snapshot[sid] = <<>>)
    => /\ serr = ErrTaskNotFound
       /\ sgot = NilRef

\* Tasks were saved under every other TaskID, then Get("invalid") failed
C25_Witness ==
    /\ sop = "Get"
    /\ sid = "invalid"
    /\ serr = ErrTaskNotFound
    /\ sgot = NilRef
    /\ \A id \in StoreIDs : snapshot[id] # <<>> /\ tasks[id] # NilRef


\* ------------------------------------------------------------------- C26
\* C26: OnGetTask, OnCancelTask and the four On...TaskPushConfig methods
\* return errUnimplemented, OnResubscribeToTask and OnSendMessageStream
\* return a nil sequence, and none of them calls the queue manager or a
\* queue or changes a queue.
C26_MethodResult ==
    /\ umethod \in UnimplementedMethods => uerr = ErrUnimplemented
    /\ umethod \in SequenceMethods => ures = Nil
    /\ umethod # "none" => ucalls = <<>>

\* a call of one of these methods leaves the queues, the queue manager and
\* the requests inside OnSendMessage as they are
C26_MethodFrame ==
    umethod' # umethod => UNCHANGED <<queuePartVars, managerVars, hpc, hcalls>>

C26_Unimplemented == []C26_MethodResult /\ [][C26_MethodFrame]_vars

\* OnDeleteTaskPushConfig returned errUnimplemented while a request is
\* inside OnSendMessage, about to Read
C26_Witness ==
    /\ umethod = "OnDeleteTaskPushConfig"
    /\ uerr = ErrUnimplemented
    /\ ucalls = <<>>
    /\ \E r \in Requests : hpc[r] = "read"


\* ------------------------------------------------------------------- C27
\* C27: under fair scheduling every Close call returns, whatever the
\* writers (waiting for the permit or blocked on a full buffer, their
\* contexts never canceled) and the readers do.
C27_CloseTerminates ==
    \A c \in Closers : (pc[c] # "idle") ~> (pc[c] = "idle")

\* Close has returned on a full buffer that was never read; a writer whose
\* context is not canceled is on its way out with ErrQueueClosed
C27_Witness ==
    /\ closeReturned
    /\ Len(events) = size
    /\ delivered = <<>>
    /\ \A p \in Writers \cup Readers : ~ctxDone[p]
    /\ \E w \in Writers : pc[w] = "release" /\ result[w] = ErrQueueClosed


\* ------------------------------------------------------------------- C28
\* a Read with a live context that leaves its select after the buffer was
\* terminated returns ErrQueueClosed if the buffer is empty and the oldest
\* buffered event otherwise
C28_ReadAfterTermination ==
    \A r \in Readers :
        pc[r] = "select" /\ pc'[r] # "select" /\ eventsClosed /\ ~ctxDone[r]
        => IF events = <<>>
              THEN /\ result'[r] = ErrQueueClosed
                   /\ got'[r] = got[r]
                   /\ delivered' = delivered
              ELSE /\ result'[r] = Nil
                   /\ got'[r] = Head(events)
                   /\ events' = Tail(events)

\* a Read that waits once Close has sent its signal does not wait for ever
C28_BlockedReadReleased ==
    \A r \in Readers : (pc[r] = "select" /\ closeChanClosed) ~> (pc[r] # "select")

\* C28: Close releases a Read that is blocked on the empty queue: once the
\* buffer is terminated that Read and every later Read on the empty queue
\* return ErrQueueClosed instead of blocking, and a Read that finds a
\* buffered event returns it.
C28_CloseReleasesRead ==
    [][C28_ReadAfterTermination]_vars /\ C28_BlockedReadReleased

\* nothing was ever written; the Close that terminated the buffer has not
\* returned yet and a Read with a live context is about to return
\* ErrQueueClosed
C28_Witness ==
    /\ accepted = <<>>
    /\ ~closeReturned
    /\ eventsClosed
    /\ \E c \in Closers : pc[c] = "release"
    /\ \E r \in Readers :
          pc[r] = "return" /\ result[r] = ErrQueueClosed /\ ~ctxDone[r]


\* ------------------------------------------------------------------- C29
\* a Destroy that is under way returns
C29_DestroyReturns ==
    \A c \in Clients : (mpc[c] # "idle" /\ mop[c] = "Destroy") ~> (mpc[c] = "idle")

\* m.mu is not held for ever, so a call that waits for it gets its turn
C29_LockReleased ==
    \A c \in Clients : (mu = c) ~> (mu = NoProc)

\* C29: a Destroy of a task whose queue has a writer blocked on the full
\* buffer returns, and the manager's mutex is always released again, so
\* that a GetOrCreate or a Destroy for another TaskID is not blocked for
\* ever.
C29_BoundedCriticalSection == C29_DestroyReturns /\ C29_LockReleased

\* the queue was destroyed while its buffer was full and never read: Destroy
\* has returned nil and released the mutex, a writer is on its way out with
\* ErrQueueClosed, and another client has a queue for another task
C29_Witness ==
    /\ destroyed = {LiveQueue}
    /\ mu = NoProc
    /\ \E c \in Clients : mpc[c] = "idle" /\ merr[c] = Nil /\ handle[c] = LiveQueue
    /\ Len(events) = size
    /\ delivered = <<>>
    /\ \E w \in Writers : pc[w] = "release" /\ result[w] = ErrQueueClosed
    /\ \E c \in Clients : handle[c] # NoQueue /\ queueTask[handle[c]] = TaskIDOf(2)


\* ------------------------------------------------------------------- C30
\* no channel is closed twice, and only one goroutine at a time is past
\* q.closeMu.Lock()
C30_OneShutdown ==
    /\ ~panicked
    /\ Cardinality({c \in Closers : pc[c] \in {"acquire", "release", "unlock"}}) <= 1

\* a Close call returns only when the signal was sent, the buffer is
\* terminated and q.closed is set, and it returns nil
C30_ReturnsAfterShutdown ==
    \A c \in Closers :
        pc[c] # "idle" /\ pc'[c] = "idle"
        => /\ closeChanClosed /\ eventsClosed /\ closed
           /\ result[c] = Nil

\* once a Close call has returned no Write is accepted
C30_NoAcceptAfterReturn ==
    closeReturned => accepted' = accepted

\* C30: with concurrent Close calls the buffer is terminated once, every
\* Close call returns only after the shutdown is complete, and no Write is
\* accepted after a Close call has returned.
C30_ConcurrentClose ==
    /\ []C30_OneShutdown
    /\ [][C30_ReturnsAfterShutdown]_vars
    /\ [][C30_NoAcceptAfterReturn]_vars

\* two Close calls at once: the one that shut the queue down holds closeMu
\* and is about to return, the other waits for closeMu; a Write that was
\* accepted before is still buffered
C30_Witness ==
    /\ ~panicked
    /\ eventsClosed
    /\ events # <<>>
    /\ \E c1, c2 \in Closers :
          /\ pc[c1] = "release" /\ closeMu = c1
          /\ pc[c2] = "lock"
    /\ \E w \in Writers : pc[w] = "acquire"


\* ------------------------------------------------------------------- C31
\* C31: Process of a Message returns nil, does not call the Saver and leaves
\* the managed Task as it was, whatever TaskID and ContextID the message has.
C31_MessageNoOp ==
    [][(/\ ProcessStep
        /\ taskRef # NilRef
        /\ lastEvent'.kind = "Message")
       => (/\ perr' = Nil
           /\ saveCalls' = saveCalls
           /\ saved' = saved
           /\ taskRef' = taskRef
           /\ Task' = Task)]_vars

\* a Message with ids that are not the managed Task's was processed after a
\* status update was saved: nil, and the Task is the one that was saved
C31_Witness ==
    /\ taskRef # NilRef
    /\ lastEvent = EventInfo("Message", FALSE, NilRef)
    /\ perr = Nil
    /\ saveCalls = 1
    /\ nProcess = 2
    /\ saved = <<[ref |-> taskRef, task |-> Task]>>

\* ------------------------------------------------------------------- C32
\* the errors validate can return for an event, given the managed Task
IdentityErrors ==
    {validate(Task, i[1], i[2]) : i \in EventIdentities} \ {Nil}

\* C32: Process of a TaskArtifactUpdate never returns nil: with the managed
\* Task's ids it returns "not implemented", with other ids the identity
\* error; it does not call the Saver and leaves the managed Task as it was.
C32_ArtifactUpdateFails ==
    [][(/\ ProcessStep
        /\ taskRef # NilRef
        /\ lastEvent'.kind = "TaskArtifactUpdate")
       => (/\ lastEvent'.matches => perr' = ErrNotImplemented
           /\ ~lastEvent'.matches => perr' \in IdentityErrors
           /\ perr' # Nil
           /\ saveCalls' = saveCalls
           /\ saved' = saved
           /\ taskRef' = taskRef
           /\ Task' = Task)]_vars

\* an artifact update with the managed Task's ids was answered with "not
\* implemented" after a status update was saved
C32_Witness ==
    /\ taskRef # NilRef
    /\ lastEvent = EventInfo("TaskArtifactUpdate", TRUE, NilRef)
    /\ perr = ErrNotImplemented
    /\ saveCalls = 1
    /\ saved = <<[ref |-> taskRef, task |-> Task]>>


\* ------------------------------------------------------------------- C33
\* a Write is in its enqueue only while the buffer is open, and no goroutine
\* has panicked
C33_EnqueueOnOpenBuffer ==
    /\ ~panicked
    /\ \A w \in Writers : pc[w] = "select" => ~eventsClosed /\ ~closed

\* the step that terminates the buffer takes the permit, and no Write is in
\* its enqueue then
C33_TerminatesUnderPermit ==
    (eventsClosed' /\ ~eventsClosed)
    => /\ tokens = 0 /\ tokens' = 1
       /\ \A w \in Writers : pc[w] # "select"

\* a Write that enters its enqueue took the permit and found q.closed false
C33_EnqueuesUnderPermit ==
    \A w \in Writers :
        (pc[w] # "select" /\ pc'[w] = "select")
        => tokens = 0 /\ tokens' = 1 /\ ~closed /\ ~eventsClosed

\* C33: no Write sends on the buffer after it was terminated and the buffer
\* is never terminated while a Write is in its enqueue: the check of q.closed,
\* the enqueue and close(q.events) happen under the permit; no send on a
\* closed channel.
C33_NoSendOnClosed ==
    /\ []C33_EnqueueOnOpenBuffer
    /\ [][C33_TerminatesUnderPermit]_vars
    /\ [][C33_EnqueuesUnderPermit]_vars

\* a Write sits in its enqueue on a full buffer while a Close that has sent
\* the signal waits for the permit, and another Write waits for it too
C33_Witness ==
    /\ Len(events) = size
    /\ closeChanClosed /\ ~eventsClosed
    /\ tokens = 1
    /\ \E c \in Closers : pc[c] = "acquire"
    /\ \E w1, w2 \in Writers :
          /\ pc[w1] = "select" /\ ~ctxDone[w1]
          /\ pc[w2] = "acquire"

\* ------------------------------------------------------------------- C34
\* the permit count is the number of calls that took the permit and have not
\* returned, at most one; a Write whose acquisition was canceled is not among
\* them; with no Write and no Close under way the permit is free
C34_PermitHeldByCaller ==
    /\ tokens = Cardinality(Holders)
    /\ tokens <= SemaphoreCount
    /\ \A w \in Writers : pc[w] = "return" => result[w] = CtxErr /\ w \notin Holders
    /\ (\A p \in Writers \cup Closers : pc[p] = "idle") => tokens = 0

\* every return of a call that holds the permit gives it back, whatever the
\* call's result
C34_ReturnReleases ==
    \A p \in Holders :
        pc'[p] = "idle"
        => /\ tokens' = tokens - 1
           /\ result[p] \in {Nil, ErrQueueClosed, CtxErr}

\* C34: the admission permit is held by at most one writer or closer, a
\* Write whose acquisition fails on cancellation holds nothing, every return
\* path of Write and Close releases the permit, and with no operation under
\* way the permit is free.
C34_PermitNeverLeaked ==
    /\ []C34_PermitHeldByCaller
    /\ [][C34_ReturnReleases]_vars

\* Writes were accepted, the queue was closed, all calls have returned and
\* the permit is free
C34_Witness ==
    /\ \A p \in Writers \cup Closers : pc[p] = "idle"
    /\ closeReturned
    /\ Len(accepted) >= 2
    /\ nextEvent > MaxWrites
    /\ tokens = 0

\* ------------------------------------------------------------------- C35
\* the events that left a Write with nil, in the order they left the buffer
\* or still wait in it
Accounted == delivered \o events

\* C35: every event whose Write returned nil is still in the buffer or was
\* returned by exactly one Read, no event is there twice, and no event of a
\* Write that returned an error is in the buffer or was returned by a Read.
C35_NoLossNoDuplicate ==
    /\ Len(Accounted) = Len(accepted)
    /\ {Accounted[i] : i \in DOMAIN Accounted} = {accepted[i] : i \in DOMAIN accepted}
    /\ \A i, j \in DOMAIN Accounted : i # j => Accounted[i] # Accounted[j]
    /\ \A w \in Writers :
          /\ result[w] = Nil => InSeq(arg[w], Accounted)
          /\ result[w] \in {ErrQueueClosed, CtxErr} => ~InSeq(arg[w], Accounted)
    /\ \A r \in Readers :
          /\ result[r] = Nil => InSeq(got[r], delivered)
          /\ result[r] \in {ErrQueueClosed, CtxErr} => got[r] = NoEvent
    /\ \A r1, r2 \in Readers :
          (r1 # r2 /\ got[r1] # NoEvent) => got[r1] # got[r2]

\* two readers hold an event each, and a Write that came while the queue was
\* being closed has failed with ErrQueueClosed
C35_Witness ==
    /\ eventsClosed
    /\ Len(delivered) = 2
    /\ \E r1, r2 \in Readers :
          /\ r1 # r2
          /\ pc[r1] = "return" /\ result[r1] = Nil /\ got[r1] = delivered[1]
          /\ pc[r2] = "return" /\ result[r2] = Nil /\ got[r2] = delivered[2]
    /\ \E w \in Writers : pc[w] = "release" /\ result[w] = ErrQueueClosed


\* ------------------------------------------------------------------- C36
\* the clients inside the critical section of a manager call
InCriticalSection == {c \in Clients : mpc[c] = "locked"}

\* the calls exclude each other, the lookup of the call that is inside is
\* that of the registry now, and a registered queue is open and was never
\* destroyed
C36_Serialized ==
    /\ Cardinality(InCriticalSection) <= 1
    /\ \A c \in InCriticalSection : mok[c] = (queues[mtaskId[c]] # NoQueue)
    /\ \A t \in TaskIDs :
          queues[t] # NoQueue => queues[t] \notin destroyed /\ ~queueClosed[queues[t]]

\* a Destroy call returns nil when it closes a queue that no call closed
\* before and removes its entry, and the not-found error otherwise
C36_OneDestroyPerQueue ==
    \A c \in Clients :
        (mpc[c] = "locked" /\ mop[c] = "Destroy" /\ mpc'[c] = "idle")
        => LET t == mtaskId[c]
               q == queues[t]
           IN  /\ queues'[t] = NoQueue
               /\ IF q # NoQueue
                     THEN /\ merr'[c] = Nil
                          /\ q \notin destroyed /\ ~queueClosed[q]
                          /\ queueClosed' = [queueClosed EXCEPT ![q] = TRUE]
                          /\ destroyed' = destroyed \cup {q}
                     ELSE /\ merr'[c] = ErrNotExist(t)
                          /\ UNCHANGED <<queues, queueClosed, destroyed>>

\* C36: of concurrent Destroy calls for one registered TaskID, with no
\* GetOrCreate for it in between, one returns nil and closes the queue, once;
\* every other one returns the not-found error; afterwards the TaskID has no
\* queue.
C36_ConcurrentDestroy ==
    /\ []C36_Serialized
    /\ [][C36_OneDestroyPerQueue]_vars

\* one queue was created; a client that never asked for a queue destroyed it
\* and the client that had created it got the not-found error from its
\* Destroy of the same TaskID
C36_Witness ==
    \E c, d \in Clients : \E t \in TaskIDs :
        /\ nextQueue = 2 /\ queueTask[1] = t
        /\ destroyed = {1} /\ queueClosed[1]
        /\ queues[t] = NoQueue
        /\ handle[c] = NoQueue /\ merr[c] = Nil
        /\ handle[d] = 1 /\ merr[d] = ErrNotExist(t)
        /\ mpc[c] = "idle" /\ mpc[d] = "idle"


\* ------------------------------------------------------------------- C37
\* C37: a Process call, whatever the event and whether it succeeds or
\* fails, leaves the ID and the ContextID of the managed Task as they were,
\* also when a Task snapshot replaces the managed reference; so after any
\* sequence of calls they are the ones the Manager was created with.
C37_IdentityInvariant ==
    [][(ProcessStep /\ taskRef # NilRef)
       => (/\ taskRef' # NilRef
           /\ Task'.ID = Task.ID
           /\ Task'.ContextID = Task.ContextID)]_vars

\* a Task snapshot in another object replaced the managed reference and a
\* later event with other ids was rejected: the managed Task has the ids of
\* newTestTask
C37_Witness ==
    /\ taskRef \notin {NilRef, 1}
    /\ nProcess = MaxEvents
    /\ perr \in IdentityErrors
    /\ Task.ID = "task-1" /\ Task.ContextID = "ctx-1"


\* ------------------------------------------------------------------- C38
\* C38: Process applies a status update with the managed Task's ids in every
\* current state, a terminal one included: it reaches the Saver, the Task's
\* Status becomes the event's Status, and when the Save succeeds Process
\* returns nil and the Task saved has that Status.
C38_NoTransitionGuard ==
    [][(/\ ProcessStep
        /\ taskRef # NilRef
        /\ lastEvent'.kind = "TaskStatusUpdate"
        /\ lastEvent'.matches)
       => (/\ perr' \in {Nil, ErrSaverFailed}
           /\ saveCalls' = saveCalls + 1
           /\ Task'.Status \in EventStatuses(nProcess + 1)
           /\ perr' = Nil =>
                 /\ Task'.Status = lastStatus'
                 /\ saved' = <<[ref |-> taskRef, task |-> Task']>>)]_vars

\* a Task snapshot put the managed Task into the rejected state and the
\* status update that followed moved it back to working
C38_Witness ==
    /\ taskRef # NilRef
    /\ base.Status.State = "rejected"
    /\ Len(applied) = 1
    /\ ~dirty
    /\ lastEvent = EventInfo("TaskStatusUpdate", TRUE, NilRef)
    /\ perr = Nil
    /\ Task.Status.State = "working"


\* ------------------------------------------------------------------- C39
\* the queue the first call created is the only one, it is registered for
\* the TaskID and open, every request holds it, and the events written and
\* not read are in its buffer, oldest first
C39_QueueKept ==
    /\ nextQueue <= LiveQueue + 1
    /\ nextQueue > LiveQueue => queues[TaskIDOf(1)] = LiveQueue
    /\ \A r \in Requests : handle[ClientOf(r)] \in {NoQueue, LiveQueue}
    /\ destroyed = {}
    /\ \A q \in QueueRefs : ~queueClosed[q]
    /\ ~closed /\ ~eventsClosed /\ ~closeChanClosed /\ ~panicked
    /\ accepted = delivered \o events

\* the Read of a call takes the oldest event that was written and not read
C39_ReadsOldestLeftover ==
    delivered' # delivered
    => /\ events # <<>>
       /\ Head(events) = accepted[Len(delivered) + 1]
       /\ delivered' = Append(delivered, Head(events))
       /\ events' = Tail(events)

\* C39: OnSendMessage never destroys or closes the task's queue: whatever
\* the outcomes of the calls for a TaskID, the manager holds the queue the
\* first call created, open, with the events written and not read still
\* buffered, and the Read of a call returns the oldest of them.
C39_QueueSurvivesCalls ==
    /\ []C39_QueueKept
    /\ [][C39_ReadsOldestLeftover]_vars

\* three events were written by the executors of several calls; a call has
\* returned the second one as its result, another call has failed, and the
\* third event is still in the queue
C39_Witness ==
    /\ accepted = <<1, 2, 3>>
    /\ delivered = <<1, 2>>
    /\ events = <<3>>
    /\ queues[TaskIDOf(1)] = LiveQueue
    /\ \E r1, r2 \in Requests :
          /\ hpc[r1] = "done" /\ herr[r1] = Nil /\ got[ReaderOf(r1)] = 2
          /\ hpc[r2] = "done" /\ herr[r2] \in ExecuteErrors

\* ------------------------------------------------------------------- C40
\* the events the Executes under way have still to put into the buffer: the
\* Write calls to come and the Write under way
RECURSIVE EventsToCome(_)
EventsToCome(S) ==
    IF S = {} THEN 0
    ELSE LET r == CHOOSE x \in S : TRUE
         IN  (IF hpc[r] = "execute" /\ pc[WriterOf(r)] \in {"acquire", "select"}
                 THEN 1 ELSE 0)
             + EventsToCome(S \ {r})
\* the buffer has room for all of them beside the events it holds
Fits == Len(events) + WritesToCome(Requests) + EventsToCome(Requests) <= size

\* a call is inside Execute or inside its Read
Serving(r) == hpc[r] \in {"execute", "read"}

\* C40: every call whose executor writes k >= 1 events and then returns nil
\* returns, for every k, without a cancellation.
C40_AlwaysReturns ==
    \A r \in Requests : Serving(r) ~> (hpc[r] = "done")

\* a call returns as long as the events to come fit into the buffer
C40_FittingCallReturns ==
    \A r \in Requests : (Serving(r) /\ Fits) ~> (hpc[r] = "done" \/ ~Fits)

\* the Read of a call starts when its Execute has written all its events
\* and returned
C40_ExecuteBeforeRead ==
    \A r \in Requests :
        pc[ReaderOf(r)] = "select"
        => hpc[r] = "read" /\ pc[WriterOf(r)] = "idle" /\ toWrite[r] = 0

\* a Write of an Execute on a full buffer stays in its enqueue while no
\* event is taken out of the buffer
C40_FullBufferBlocks ==
    \A r \in Requests :
        (/\ hpc[r] = "execute"
         /\ pc[WriterOf(r)] = "select"
         /\ Len(events) = size
         /\ events' = events)
        => pc'[WriterOf(r)] = "select" /\ hpc'[r] = "execute"

\* what does hold of these executors: the call returns without a
\* cancellation when the k events fit into the free slots of the buffer;
\* Execute runs to completion before the Read, so a Write that finds the
\* buffer full waits until another call reads an event.
C40_ReturnsWhenEventsFit ==
    /\ C40_FittingCallReturns
    /\ []C40_ExecuteBeforeRead
    /\ [][C40_FullBufferBlocks]_vars

\* a call whose executor wrote as many events as the buffer holds returned
\* the first of them, with no other call at work
C40_Witness ==
    /\ size = 2
    /\ accepted = <<1, 2>>
    /\ delivered = <<1>>
    /\ \E r1, r2 \in Requests :
          /\ hpc[r1] = "done" /\ herr[r1] = Nil
          /\ hcalls[r1] = <<Call("GetOrCreate", Nil), Call("Execute", Nil), Call("Read", Nil)>>
          /\ hpc[r2] = "idle"

====
